---- MODULE Spec2Model ----
(***************************************************************************)
(* Verification model of the EcoData Monitor analytics core:               *)
(*   - pipeline_etl.py      Bronze -> Silver processing (process_producao, *)
(*                          process_telemetria)                            *)
(*   - app/domain/kpis.py   selecionar_periodo_inteligente                 *)
(*   - app/domain/alerts.py AlertDetector (cooldown map, detectors)        *)
(*                                                                         *)
(* Conventions                                                             *)
(*   A nullable number is a sequence: <<>> is NaN / NaT, <<v>> is v.       *)
(*   Floats are modelled as exact rationals; a column that has been        *)
(*   winsorized is carried in hundredths so that the 1st / 99th percentile *)
(*   interpolation of a frame of at most 100 rows stays an integer.        *)
(***************************************************************************)
EXTENDS Integers, Sequences, FiniteSets, TLC

VARIABLES
    \* ---- pipeline_etl.process_producao
    prod_raw,        \* the raw production frame handed to process_producao
    prod_out,        \* <<>> before the call, then <<(frame, quality report)>>
    \* ---- pipeline_etl.process_telemetria
    tele_raw,        \* the raw telemetry frame handed to process_telemetria
    tele_out,        \* <<>> before the call, then <<(frame, quality report)>>
    \* ---- kpis.selecionar_periodo_inteligente
    producao_df,     \* the caller's production frame (argument of the selector)
    agora,           \* the wall clock read by pd.Timestamp.now()
    chamadas,        \* results returned so far, one record per call
    \* ---- alerts.AlertDetector
    last_alert_time, \* self.last_alert_time: alert key -> wall-clock minute
    relogio,         \* the wall clock read by datetime.now(), in minutes
    ultima,          \* <<>>, or <<the most recent detector call>>: its arguments,
                     \* the cooldown map it started from and the alerts it returned
    df_maq,          \* the telemetry frame of the equipment under analysis
    n_leituras,      \* number of readings that arrived since the start
    \* ---- kpis: the stateless KPI functions
    kpi_args,        \* the arguments of the KPI function under call
    kpi_ret,         \* <<>> before the call, then <<its return value>>
    \* ---- pipeline_etl.process_eventos
    evt_raw,         \* the raw events frame handed to process_eventos
    evt_out,         \* <<>> before the call, then <<(frame, quality report)>>
    etl_bronze,     \* run_etl_pipeline: the raw CSV files present in RAW_DIR
    etl_disk,       \* the output files present on disk
    etl_pc,         \* the statement of run_etl_pipeline to execute next
    etl_stages,     \* the stages the run has completed, in order
    etl_written,    \* the output files the run has created or overwritten
    etl_ret,        \* <<>> while running, then <<outcome of the call>>
    conc_pc,        \* concurrent runs: the next statement of each run_etl_pipeline call
    conc_ret,       \* <<>> while the call runs, then <<what it returned>>
    conc_files      \* for each output file, the run whose data it holds (0: neither)

vars_prod    == <<prod_raw, prod_out>>
vars_tele    == <<tele_raw, tele_out>>
vars_periodo == <<producao_df, agora, chamadas>>
vars_alert   == <<last_alert_time, relogio, ultima, df_maq, n_leituras>>
vars_kpi     == <<kpi_args, kpi_ret>>
vars_evt     == <<evt_raw, evt_out>>
vars_etl     == <<etl_bronze, etl_disk, etl_pc, etl_stages, etl_written, etl_ret>>
vars_conc    == <<conc_pc, conc_ret, conc_files>>
vars         == <<vars_prod, vars_tele, vars_periodo, vars_alert, vars_kpi, vars_evt, vars_etl, vars_conc>>

(***************************************************************************)
(* Nullable numbers (NaN / NaT) and the pandas comparisons on them: every  *)
(* comparison with NaN is False.                                           *)
(***************************************************************************)
NaN == <<>>

Num(v) == <<v>>

IsNa(x) == x = <<>>

Val(x) == x[1]

Ge(x, y) == ~IsNa(x) /\ ~IsNa(y) /\ Val(x) >= Val(y)

Le(x, y) == ~IsNa(x) /\ ~IsNa(y) /\ Val(x) <= Val(y)

Gt(x, y) == ~IsNa(x) /\ ~IsNa(y) /\ Val(x) > Val(y)

Lt(x, y) == ~IsNa(x) /\ ~IsNa(y) /\ Val(x) < Val(y)

(***************************************************************************)
(* Sequence helpers.                                                       *)
(***************************************************************************)
Range(s) == {s[i] : i \in DOMAIN s}

RECURSIVE SumSeq(_)
SumSeq(s) == IF s = <<>> THEN 0 ELSE Head(s) + SumSeq(Tail(s))

\* All sequences over S of length 0..n
SeqsUpTo(S, n) == UNION {[1..k -> S] : k \in 0..n}

(***************************************************************************)
(* Idle values of the selector and detector state, used by the             *)
(* specifications that do not exercise them.                               *)
(***************************************************************************)
IdlePeriodo ==
    /\ producao_df = [ts_dtype |-> "object", rows |-> <<>>]
    /\ agora = 0
    /\ chamadas = <<>>

IdleAlert ==
    /\ last_alert_time = <<>>
    /\ relogio = 0
    /\ ultima = <<>>
    /\ df_maq = [columns |-> {}, rows |-> <<>>]
    /\ n_leituras = 0

IdleKpi ==
    /\ kpi_args = <<>>
    /\ kpi_ret = <<>>

IdleEvt ==
    /\ evt_raw = <<>>
    /\ evt_out = <<>>

IdleEtl ==
    /\ etl_bronze = {} /\ etl_disk = {} /\ etl_pc = 0
    /\ etl_stages = <<>> /\ etl_written = {} /\ etl_ret = <<>>

IdleConc ==
    conc_pc = <<>> /\ conc_ret = <<>> /\ conc_files = <<>>

(***************************************************************************)
(* pipeline_etl.py: calculate_data_quality_metrics, reduced to the counts  *)
(* (the percentages are ratios of these counts).                           *)
(***************************************************************************)
\* df.duplicated().sum(): rows equal to an earlier row
duplicated_count(df) ==
    Cardinality({i \in DOMAIN df : \E j \in 1..(i - 1) : df[j] = df[i]})

\* df[col].isna().sum()
null_count(df, col) == Cardinality({i \in DOMAIN df : IsNa(df[i][col])})

(***************************************************************************)
(* pipeline_etl.py: process_producao                                       *)
(*   A raw row is [timestamp, pecas_produzidas, pecas_refugadas]; the      *)
(*   timestamp is the hour since the epoch, NaN when the text of the cell  *)
(*   cannot be parsed (pd.to_datetime(errors="coerce") gives NaT).         *)
(***************************************************************************)
get_turno(hour) ==
    IF 6 <= hour /\ hour < 14 THEN "Turno A (06h-14h)"
    ELSE IF 14 <= hour /\ hour < 22 THEN "Turno B (14h-22h)"
    ELSE "Turno C (22h-06h)"

\* step 4 with the third business rule left out
validacoes_de_negocio_sem_limite(prod) ==
    LET p1 == SelectSeq(prod, LAMBDA r : Ge(r.pecas_produzidas, Num(0)))
    IN  SelectSeq(p1, LAMBDA r : Ge(r.pecas_refugadas, Num(0)))

\* step 4: three successive boolean-mask filters
validacoes_de_negocio(prod) ==
    LET p1 == SelectSeq(prod, LAMBDA r : Ge(r.pecas_produzidas, Num(0)))
        p2 == SelectSeq(p1, LAMBDA r : Ge(r.pecas_refugadas, Num(0)))
    IN  SelectSeq(p2, LAMBDA r : Le(r.pecas_refugadas, r.pecas_produzidas))

\* step 5: turno, data and taxa_refugo (a ratio num/den, NaN when production is 0)
criar_features(r) ==
    [timestamp        |-> r.timestamp,
     pecas_produzidas |-> r.pecas_produzidas,
     pecas_refugadas  |-> r.pecas_refugadas,
     turno            |-> get_turno(Val(r.timestamp) % 24),
     data             |-> Val(r.timestamp) \div 24,
     taxa_refugo      |-> IF Val(r.pecas_produzidas) = 0 THEN NaN
                          ELSE <<Val(r.pecas_refugadas), Val(r.pecas_produzidas)>>]

process_producao(raw) ==
    LET initial_count == Len(raw)
        parsed == SelectSeq(raw, LAMBDA r : ~IsNa(r.timestamp))
        valid  == validacoes_de_negocio(parsed)
        prod   == [i \in DOMAIN valid |-> criar_features(valid[i])]
    IN  [silver  |-> prod,
         quality |-> [dataset         |-> "producao_silver",
                      total_records   |-> Len(prod),
                      duplicates      |-> duplicated_count(prod),
                      null_taxa       |-> null_count(prod, "taxa_refugo"),
                      initial_records |-> initial_count,
                      final_records   |-> Len(prod),
                      removed_invalid |-> initial_count - Len(prod)]]

(***************************************************************************)
(* Specification of process_producao: any raw frame within the bounds,     *)
(* then one call.                                                          *)
(***************************************************************************)
MaxProdRows == 2

ProdTimestamps == {NaN, Num(5), Num(14)}

ProdCounts == {NaN, Num(0 - 1), Num(0), Num(2)}

RawProdRows ==
    [timestamp : ProdTimestamps, pecas_produzidas : ProdCounts,
     pecas_refugadas : ProdCounts]

IdleProd == prod_raw = <<>> /\ prod_out = <<>>

ProcessProducao ==
    /\ prod_out = <<>>
    /\ prod_out' = <<process_producao(prod_raw)>>
    /\ UNCHANGED prod_raw

(***************************************************************************)
(* pipeline_etl.py: quantiles and outlier detection.                       *)
(*   Series.quantile(q) interpolates linearly between the order statistics *)
(*   around position (n-1)*q.  For q = a/b the operator returns b times    *)
(*   the quantile, which is an integer.  The series is non-empty and has   *)
(*   no NaN where the code calls it on a kept column.                      *)
(***************************************************************************)
SortedVals(series) == SortSeq(series, LAMBDA x, y : x < y)

QuantileTimes(series, a, b) ==
    LET s   == SortedVals(series)
        n   == Len(s)
        pos == (n - 1) * a
        i   == pos \div b
        r   == pos % b
    IN  IF r = 0 THEN b * s[i + 1]
        ELSE b * s[i + 1] + r * (s[i + 2] - s[i + 1])

\* detect_outliers_iqr: positions of the values outside
\* [Q1 - 1.5*IQR, Q3 + 1.5*IQR]; the comparison is made on 8 times each side
detect_outliers_iqr(series) ==
    IF series = <<>> THEN {}
    ELSE LET Q1x4  == QuantileTimes(series, 1, 4)
             Q3x4  == QuantileTimes(series, 3, 4)
             IQRx4 == Q3x4 - Q1x4
             lower_bound_x8 == 2 * Q1x4 - 3 * IQRx4
             upper_bound_x8 == 2 * Q3x4 + 3 * IQRx4
         IN  {i \in DOMAIN series :
                 8 * series[i] < lower_bound_x8 \/ 8 * series[i] > upper_bound_x8}

\* detect_outliers_zscore: |x - mean| / std > 3 with the population std
\* (scipy.stats.zscore, ddof = 0); a constant series has z = NaN, never > 3
detect_outliers_zscore(series) ==
    LET n  == Len(series)
        S  == SumSeq(series)
        SS == SumSeq([i \in DOMAIN series |-> series[i] * series[i]])
    IN  {i \in DOMAIN series :
            /\ n * SS - S * S > 0
            /\ (n * series[i] - S) * (n * series[i] - S) > 9 * (n * SS - S * S)}

\* Series.clip(lower, upper)
clip(x, lower, upper) == IF x < lower THEN lower ELSE IF x > upper THEN upper ELSE x

(***************************************************************************)
(* pipeline_etl.py: DataQualityConfig and process_telemetria               *)
(*   A raw frame is [columns, rows]: columns is the set of metric columns  *)
(*   the CSV has, a row maps "timestamp" and each of them to a cell.  A    *)
(*   cell is the number pd.to_numeric / clean_temp reads from it, NaN when *)
(*   it is empty or holds text such as "ERR" (steps 3 and 4 coerce both to *)
(*   NaN / NaT).  The metric columns of the returned frame are in          *)
(*   hundredths.                                                           *)
(***************************************************************************)
PRESSAO_MIN == 8

PRESSAO_MAX == 18

UMIDADE_MIN == 8

UMIDADE_MAX == 18

TEMP_MIN == 40

TEMP_MAX == 80

MetricCols == <<"pressao_mpa", "umidade_pct", "temp_matriz_c">>

LimitMin(col) ==
    CASE col = "pressao_mpa"   -> PRESSAO_MIN
      [] col = "umidade_pct"   -> UMIDADE_MIN
      [] col = "temp_matriz_c" -> TEMP_MIN

LimitMax(col) ==
    CASE col = "pressao_mpa"   -> PRESSAO_MAX
      [] col = "umidade_pct"   -> UMIDADE_MAX
      [] col = "temp_matriz_c" -> TEMP_MAX

\* step 5 with the lower limit of each column not tested
mask_valid_sem_minimo(columns, r) ==
    \A col \in columns : Le(r[col], Num(LimitMax(col)))

\* step 5: a row is valid when every present metric column is within its limits
mask_valid(columns, r) ==
    \A col \in columns :
        Ge(r[col], Num(LimitMin(col))) /\ Le(r[col], Num(LimitMax(col)))

\* step 6 for one column: when the IQR rule flags any value, clip the column
\* to its 1st and 99th percentiles; result in hundredths
winsorize(series) ==
    IF detect_outliers_iqr(series) = {}
    THEN [i \in DOMAIN series |-> 100 * series[i]]
    ELSE LET lower == QuantileTimes(series, 1, 100)
             upper == QuantileTimes(series, 99, 100)
         IN  [i \in DOMAIN series |-> clip(100 * series[i], lower, upper)]

Column(rows, col) == [i \in DOMAIN rows |-> Val(rows[i][col])]

process_telemetria(raw) ==
    LET initial_count == Len(raw.rows)
        parsed  == SelectSeq(raw.rows, LAMBDA r : ~IsNa(r.timestamp))
        invalid_count ==
            Cardinality({i \in DOMAIN parsed : ~mask_valid(raw.columns, parsed[i])})
        kept    == SelectSeq(parsed, LAMBDA r : mask_valid(raw.columns, r))
        clipped == [col \in raw.columns |-> winsorize(Column(kept, col))]
        tele    == [i \in DOMAIN kept |->
                       [f \in raw.columns \cup {"timestamp", "data"} |->
                           CASE f = "timestamp" -> kept[i].timestamp
                             [] f = "data"      -> Num(Val(kept[i].timestamp) \div 24)
                             [] OTHER           -> Num(clipped[f][i])]]
    IN  [columns |-> raw.columns,
         silver  |-> tele,
         quality |->
            [dataset         |-> "telemetria_silver",
             total_records   |-> Len(tele),
             duplicates      |-> duplicated_count(tele),
             null_count      |-> [col \in raw.columns |-> null_count(tele, col)],
             outliers        |->
                [col \in raw.columns |->
                    [iqr_method    |->
                        Cardinality(detect_outliers_iqr(Column(tele, col))),
                     zscore_method |->
                        Cardinality(detect_outliers_zscore(Column(tele, col)))]],
             initial_records |-> initial_count,
             final_records   |-> Len(tele),
             removed_invalid |-> invalid_count]]

(***************************************************************************)
(* Specification of process_telemetria: any raw frame within the bounds,   *)
(* then one call.  A raw row differs from the nominal row in at most one   *)
(* cell.                                                                   *)
(***************************************************************************)
MaxTeleRows == 4

ColumnSets ==
    {{"pressao_mpa", "umidade_pct", "temp_matriz_c"}, {"pressao_mpa"},
     {"umidade_pct", "temp_matriz_c"}}

NominalCell(f) ==
    CASE f = "timestamp"     -> Num(30)
      [] f = "pressao_mpa"   -> Num(13)
      [] f = "umidade_pct"   -> Num(13)
      [] f = "temp_matriz_c" -> Num(60)

OtherCells(f) ==
    CASE f = "timestamp"     -> {NaN}
      [] f = "pressao_mpa"   -> {NaN, Num(7), Num(8), Num(18), Num(19)}
      [] f = "umidade_pct"   -> {Num(7), Num(18)}
      [] f = "temp_matriz_c" -> {Num(39), Num(80)}

NominalRow(columns) == [f \in columns \cup {"timestamp"} |-> NominalCell(f)]

RawTeleRows(columns) ==
    {NominalRow(columns)} \cup
    {[NominalRow(columns) EXCEPT ![f] = c] :
        <<f, c>> \in UNION {{f} \X OtherCells(f) : f \in columns \cup {"timestamp"}}}

IdleTele == tele_raw = [columns |-> {}, rows |-> <<>>] /\ tele_out = <<>>

ProcessTelemetria ==
    /\ tele_out = <<>>
    /\ tele_out' = <<process_telemetria(tele_raw)>>
    /\ UNCHANGED tele_raw

(***************************************************************************)
(* app/domain/kpis.py: selecionar_periodo_inteligente                      *)
(*   A production frame is [ts_dtype, rows]; a row is [timestamp,          *)
(*   pecas_produzidas].  A timestamp is in seconds since the epoch (day 0  *)
(*   is a Thursday), NaN for a cell pd.to_datetime(errors="coerce") turns  *)
(*   into NaT.  ts_dtype is the dtype of the timestamp column: "object"    *)
(*   as read from a CSV, "datetime64" once converted.                      *)
(*   The returned description is [rotulo, dia]: the label and the day      *)
(*   strftime('%d/%m') prints in it (NaN when it prints none).             *)
(***************************************************************************)
SECONDS_PER_DAY == 86400

LIMIAR_PRODUCAO == 500

DOMINGO == 6

MAX_TENTATIVAS == 7

DateOf(ts) == ts \div SECONDS_PER_DAY

\* weekday numbering that starts the week on Sunday
Weekday_domingo_zero(day) == (day + 4) % 7

\* datetime.date.weekday(): Monday is 0, Sunday is 6; 1970-01-01 is a Thursday
Weekday(day) == (day + 3) % 7

\* pd.Timestamp(day): midnight of the day
Midnight(day) == day * SECONDS_PER_DAY

RECURSIVE MaxOf(_)
MaxOf(S) ==
    LET x == CHOOSE y \in S : TRUE
    IN  IF S = {x} THEN x
        ELSE LET m == MaxOf(S \ {x}) IN IF x > m THEN x ELSE m

RECURSIVE MinOf(_)
MinOf(S) ==
    LET x == CHOOSE y \in S : TRUE
    IN  IF S = {x} THEN x
        ELSE LET m == MinOf(S \ {x}) IN IF x < m THEN x ELSE m

\* Series.max() / Series.min() of a datetime column: NaT is skipped, and the
\* result is NaT when nothing is left
ts_max(rows) ==
    LET S == {Val(rows[i].timestamp) : i \in {j \in DOMAIN rows : ~IsNa(rows[j].timestamp)}}
    IN  IF S = {} THEN NaN ELSE Num(MaxOf(S))

ts_min(rows) ==
    LET S == {Val(rows[i].timestamp) : i \in {j \in DOMAIN rows : ~IsNa(rows[j].timestamp)}}
    IN  IF S = {} THEN NaN ELSE Num(MinOf(S))

\* df[df["timestamp"].dt.date == day]: NaT rows never match
rows_of_day(rows, day) ==
    SelectSeq(rows, LAMBDA r : ~IsNa(r.timestamp) /\ DateOf(Val(r.timestamp)) = day)

total_pecas(rows) == SumSeq([i \in DOMAIN rows |-> rows[i].pecas_produzidas])

\* _to_datetime_safe applied to a frame: the column becomes datetime64
_to_datetime_safe(df) == [df EXCEPT !.ts_dtype = "datetime64"]

\* the loop with the bound tested as tentativas <= 7
RECURSIVE buscar_dia_anterior_oito(_, _, _)
buscar_dia_anterior_oito(rows, dia_ref, tentativas) ==
    IF ~(tentativas <= MAX_TENTATIVAS)
    THEN [found |-> FALSE, dia_ref |-> dia_ref, tentativas |-> tentativas]
    ELSE LET prod_ref == rows_of_day(rows, dia_ref)
         IN  IF prod_ref # <<>> /\ total_pecas(prod_ref) > 0
             THEN [found |-> TRUE, dia_ref |-> dia_ref, tentativas |-> tentativas]
             ELSE buscar_dia_anterior_oito(rows, dia_ref - 1, tentativas + 1)

\* the loop accepting any day that has rows, without the sum > 0 test
RECURSIVE buscar_dia_anterior_sem_soma(_, _, _)
buscar_dia_anterior_sem_soma(rows, dia_ref, tentativas) ==
    IF ~(tentativas < MAX_TENTATIVAS)
    THEN [found |-> FALSE, dia_ref |-> dia_ref, tentativas |-> tentativas]
    ELSE LET prod_ref == rows_of_day(rows, dia_ref)
         IN  IF prod_ref # <<>>
             THEN [found |-> TRUE, dia_ref |-> dia_ref, tentativas |-> tentativas]
             ELSE buscar_dia_anterior_sem_soma(rows, dia_ref - 1, tentativas + 1)

\* the while loop of lines 77-83: dia_ref and tentativas when it stops
RECURSIVE buscar_dia_anterior(_, _, _)
buscar_dia_anterior(rows, dia_ref, tentativas) ==
    IF ~(tentativas < MAX_TENTATIVAS)
    THEN [found |-> FALSE, dia_ref |-> dia_ref, tentativas |-> tentativas]
    ELSE LET prod_ref == rows_of_day(rows, dia_ref)
         IN  IF prod_ref # <<>> /\ total_pecas(prod_ref) > 0
             THEN [found |-> TRUE, dia_ref |-> dia_ref, tentativas |-> tentativas]
             ELSE buscar_dia_anterior(rows, dia_ref - 1, tentativas + 1)

Resultado(inicio, fim, rotulo, dia, tentativas) ==
    [inicio |-> inicio, fim |-> fim, descricao |-> [rotulo |-> rotulo, dia |-> dia],
     tentativas |-> tentativas]

DiaInteiro(day, rotulo, tentativas) ==
    Resultado(Num(Midnight(day)), Num(Midnight(day) + SECONDS_PER_DAY - 1),
              rotulo, Num(day), tentativas)

\* the 24-hour window anchored on the earliest timestamp
periodo_24h_desde_o_inicio(df) ==
    LET fim == ts_min(df.rows)
    IN  Resultado(IF IsNa(fim) THEN NaN ELSE Num(Val(fim) - SECONDS_PER_DAY), fim,
                  "Ultimas 24 Horas", NaN, 0)

\* modo == "24h"
periodo_24h(df) ==
    LET fim == ts_max(df.rows)
    IN  Resultado(IF IsNa(fim) THEN NaN ELSE Num(Val(fim) - SECONDS_PER_DAY), fim,
                  "Ultimas 24 Horas", NaN, 0)

\* modo == "ontem"
periodo_ontem(clock) == DiaInteiro(DateOf(clock - SECONDS_PER_DAY), "Ontem", 0)

\* the auto branch, lines 57-98
periodo_auto(df) ==
    LET prod_valida == SelectSeq(df.rows, LAMBDA r : r.pecas_produzidas > 0)
        ultimo_timestamp == ts_max(prod_valida)
    IN  IF prod_valida = <<>>
        THEN Resultado(ts_min(df.rows), ts_max(df.rows), "Historico Total", NaN, 0)
        ELSE IF IsNa(ultimo_timestamp)
        \* every producing row has a NaT timestamp: NaT.date() is NaT, no row
        \* matches it, total_ultimo is 0 and the seven steps back find nothing
        THEN Resultado(ts_min(df.rows), ts_max(df.rows), "Historico (fallback)",
                       NaN, MAX_TENTATIVAS)
        ELSE LET ultimo_dia   == DateOf(Val(ultimo_timestamp))
                 total_ultimo == total_pecas(rows_of_day(prod_valida, ultimo_dia))
             IN  IF total_ultimo < LIMIAR_PRODUCAO \/ Weekday(ultimo_dia) = DOMINGO
                 THEN LET b == buscar_dia_anterior(df.rows, ultimo_dia - 1, 0)
                      IN  IF b.found
                          THEN DiaInteiro(b.dia_ref, "Fechamento Anterior", b.tentativas)
                          ELSE Resultado(ts_min(df.rows), ts_max(df.rows),
                                         "Historico (fallback)", NaN, b.tentativas)
                 ELSE DiaInteiro(ultimo_dia, "Hoje", 0)

\* the selector on its private copy df, with the clock it read
selecionar_no_df(df, modo, clock) ==
    IF df.rows = <<>> THEN Resultado(NaN, NaN, "Sem Dados", NaN, 0)
    ELSE IF modo = "24h" THEN periodo_24h(df)
    ELSE IF modo = "ontem" THEN periodo_ontem(clock)
    ELSE periodo_auto(df)

\* lines 38-39: df = producao_df.copy() is converted, the caller's frame is not
frame_apos_chamada(df) == df

\* the auto branch anchored on the clock instead of on the data
selecionar_periodo_pelo_relogio(df, modo, clock) ==
    IF modo \in {"24h", "ontem"} \/ df.rows = <<>>
    THEN selecionar_no_df(_to_datetime_safe(df), modo, clock)
    ELSE DiaInteiro(DateOf(clock), "Hoje", 0)

selecionar_periodo_inteligente(df, modo, clock) ==
    selecionar_no_df(_to_datetime_safe(df), modo, clock)

(***************************************************************************)
(* Specification of the selector: a caller holds one production frame and  *)
(* calls the selector any number of times while the wall clock advances;   *)
(* chamadas keeps the two most recent calls.  The frame is a production    *)
(* log: its rows are in chronological order (the simulator appends them    *)
(* hour by hour and process_producao keeps the order), NaT rows last.      *)
(***************************************************************************)
MaxPeriodoRows == 2

\* days 0 .. MAX_TENTATIVAS + 1: a latest day with all seven days before it
\* and one day beyond the reach of the search
PeriodoDays == 0..(MAX_TENTATIVAS + 1)

PeriodoTimestamps ==
    {Num(Midnight(d) + t) : d \in PeriodoDays, t \in {0, SECONDS_PER_DAY - 1}}

PeriodoPecas == {0, 300, 600}

PeriodoRows ==
    [timestamp : PeriodoTimestamps, pecas_produzidas : PeriodoPecas]
    \cup {[timestamp |-> NaN, pecas_produzidas |-> 600]}

SortKey(r) ==
    IF IsNa(r.timestamp) THEN Midnight(MAX_TENTATIVAS + 2) ELSE Val(r.timestamp)

IsChronological(rows) ==
    \A i \in DOMAIN rows : \A j \in DOMAIN rows :
        i < j => SortKey(rows[i]) <= SortKey(rows[j])

Modos == {"auto", "ontem", "24h"}

PrimeiroRelogio == Midnight(MAX_TENTATIVAS + 2) + 3600

UltimoRelogio == PrimeiroRelogio + SECONDS_PER_DAY

LastTwo(s) == IF Len(s) <= 2 THEN s ELSE Tail(s)

Selecionar(modo) ==
    /\ chamadas' = LastTwo(Append(chamadas,
                      [modo      |-> modo,
                       agora     |-> agora,
                       antes     |-> producao_df,
                       resultado |-> selecionar_periodo_inteligente(producao_df, modo, agora)]))
    /\ producao_df' = frame_apos_chamada(producao_df)
    /\ UNCHANGED agora

Tick ==
    /\ agora < UltimoRelogio
    /\ agora' = agora + SECONDS_PER_DAY
    /\ UNCHANGED <<producao_df, chamadas>>

InitPeriodo ==
    /\ \E rows \in {f \in SeqsUpTo(PeriodoRows, MaxPeriodoRows) : IsChronological(f)} :
          producao_df = [ts_dtype |-> "object", rows |-> rows]
    /\ agora = PrimeiroRelogio
    /\ chamadas = <<>>
    /\ IdleProd /\ IdleTele /\ IdleAlert /\ IdleKpi /\ IdleEvt /\ IdleEtl /\ IdleConc

NextPeriodo ==
    /\ \/ \E modo \in Modos : Selecionar(modo)
       \/ Tick
    /\ UNCHANGED <<vars_prod, vars_tele, vars_alert, vars_kpi, vars_evt, vars_etl, vars_conc>>

SpecPeriodo == InitPeriodo /\ [][NextPeriodo]_vars

(***************************************************************************)
(* The selector called with the flags that ask for the rolling 24 hours:   *)
(* "24h", the spelling line 44 tests, and "rolling_24h".                   *)
(***************************************************************************)
ModosJanela == {"24h", "rolling_24h"}

NextJanela ==
    /\ \E modo \in ModosJanela : Selecionar(modo)
    /\ UNCHANGED <<vars_prod, vars_tele, vars_alert, vars_kpi, vars_evt, vars_etl, vars_conc>>

SpecJanela == InitPeriodo /\ [][NextJanela]_vars

(***************************************************************************)
(* app/domain/alerts.py: AlertConfig, ControlLimitsCalculator and          *)
(* AlertDetector.                                                          *)
(*   A per-equipment frame is [columns, rows]; a row maps "timestamp" (in  *)
(*   minutes) and each metric column to a number.  The wall clock is in    *)
(*   minutes; one detector call reads the same minute at every             *)
(*   datetime.now(), a call being far shorter than the cooldown.           *)
(*   Control limits are kept exact: mean = sum / n and                     *)
(*   std^2 = var_num / var_den, so that value > mean + k*std is decided    *)
(*   on integers.                                                          *)
(***************************************************************************)
PRESSURE_MIN_SAFE == 10

PRESSURE_MAX_SAFE == 16

TEMP_MIN_SAFE == 50

TEMP_MAX_SAFE == 70

UMIDADE_MIN_SAFE == 9

UMIDADE_MAX_SAFE == 15

WINDOW_SIZE == 30

STD_FACTOR_WARNING == 2

STD_FACTOR_CRITICAL == 3

PERSISTENCE_WARNING == 3

PERSISTENCE_CRITICAL == 5

COOLDOWN_MINUTES == 15

SafetyMetrics == <<"pressao_mpa", "temp_matriz_c", "umidade_pct">>

MinSafe(metric) ==
    CASE metric = "pressao_mpa"   -> PRESSURE_MIN_SAFE
      [] metric = "temp_matriz_c" -> TEMP_MIN_SAFE
      [] metric = "umidade_pct"   -> UMIDADE_MIN_SAFE

MaxSafe(metric) ==
    CASE metric = "pressao_mpa"   -> PRESSURE_MAX_SAFE
      [] metric = "temp_matriz_c" -> TEMP_MAX_SAFE
      [] metric = "umidade_pct"   -> UMIDADE_MAX_SAFE

\* a key that leaves the rule out
AlertKey_sem_regra(maquina_id, metric, rule) == maquina_id \o "_" \o metric

\* f"{maquina_id}_{metric}_{rule}"
AlertKey(maquina_id, metric, rule) == maquina_id \o "_" \o metric \o "_" \o rule

\* a cooldown test that never suppresses
_is_in_cooldown_nunca(lat, alert_key, now) == FALSE

\* a cooldown that still holds when exactly COOLDOWN_MINUTES have elapsed
_is_in_cooldown_inclusive(lat, alert_key, now) ==
    /\ alert_key \in DOMAIN lat
    /\ now - lat[alert_key] <= COOLDOWN_MINUTES

\* AlertDetector._is_in_cooldown, on the map lat read at wall-clock minute now
_is_in_cooldown(lat, alert_key, now) ==
    /\ alert_key \in DOMAIN lat
    /\ now - lat[alert_key] < COOLDOWN_MINUTES

\* an emission that leaves the cooldown map as it was
registrar_esquece(lat, alert_key, now) == lat

\* self.last_alert_time[alert_key] = datetime.now()
registrar(lat, alert_key, now) ==
    [k \in DOMAIN lat \cup {alert_key} |-> IF k = alert_key THEN now ELSE lat[k]]

\* sum and sum of squares of the last `window` values of a series
SumLast(series, window) ==
    SumSeq(SubSeq(series, Len(series) - window + 1, Len(series)))

SumSqLast(series, window) ==
    SumSeq([i \in 1..window |->
               series[Len(series) - window + i] * series[Len(series) - window + i]])

\* ControlLimitsCalculator.calculate_limits: rolling mean and sample std at
\* the last row; when that std is NaN or 0 the std of the whole series is
\* used; defined is FALSE when the limits are NaN (a single sample)
calculate_limits(series, window_size, std_factor) ==
    LET window == IF Len(series) < window_size THEN Len(series) ELSE window_size
        S      == SumLast(series, window)
        Q      == window * SumSqLast(series, window) - S * S
        N      == Len(series)
        S_all  == SumSeq(series)
        Q_all  == N * SumSqLast(series, N) - S_all * S_all
        rolling_ok == window > 1 /\ Q > 0
    IN  [n          |-> window,
         sum        |-> S,
         var_num    |-> IF rolling_ok THEN Q ELSE Q_all,
         var_den    |-> IF rolling_ok THEN window * (window - 1) ELSE N * (N - 1),
         std_factor |-> std_factor,
         defined    |-> rolling_ok \/ N > 1]

\* (n*value - sum)^2 * var_den > k^2 * n^2 * var_num, i.e. |value - mean| > k*std
BeyondStd(value, limits) ==
    LET d == limits.n * value - limits.sum
    IN  d * d * limits.var_den
            > limits.std_factor * limits.std_factor * limits.n * limits.n * limits.var_num

\* value > limits.ucl or value < limits.lcl
OutOfLimits(value, limits) ==
    /\ limits.defined
    /\ limits.n * value # limits.sum
    /\ BeyondStd(value, limits)

\* the positions of every row of the frame
TailIdx_todas(df, n) == [i \in 1..Len(df.rows) |-> i]

\* df.tail(n): the positions of the last n rows
TailIdx(df, n) ==
    LET lo == IF Len(df.rows) > n THEN Len(df.rows) - n + 1 ELSE 1
    IN  [i \in 1..(Len(df.rows) - lo + 1) |-> lo + i - 1]

NovoAlerta(df, i, maquina_id, metric, alert_type, severity) ==
    [row       |-> i,
     timestamp |-> df.rows[i].timestamp,
     maquina_id |-> maquina_id,
     metric    |-> metric,
     value     |-> df.rows[i][metric],
     alert_type |-> alert_type,
     severity  |-> severity]

\* the loop of detect_out_of_control over recent_df (lines 223-246): st is
\* [lat, alerts], the cooldown map and the alerts so far
RECURSIVE ooc_loop(_, _, _, _, _, _, _)
ooc_loop(df, idxs, limits, maquina_id, metric, now, st) ==
    IF idxs = <<>> THEN st
    ELSE LET i         == Head(idxs)
             alert_key == AlertKey(maquina_id, metric, "OUT_OF_CONTROL")
             fires     == /\ OutOfLimits(df.rows[i][metric], limits)
                          /\ ~_is_in_cooldown(st.lat, alert_key, now)
             st2       == IF fires
                          THEN [lat    |-> registrar(st.lat, alert_key, now),
                                alerts |-> Append(st.alerts,
                                              NovoAlerta(df, i, maquina_id, metric,
                                                         "OUT_OF_CONTROL", "CRITICAL"))]
                          ELSE st
         IN  ooc_loop(df, Tail(idxs), limits, maquina_id, metric, now, st2)

ooc_limits(df, metric) ==
    calculate_limits([i \in DOMAIN df.rows |-> df.rows[i][metric]], WINDOW_SIZE, STD_FACTOR_WARNING)

\* AlertDetector.detect_out_of_control: [lat, alerts] after the call
detect_out_of_control(df, metric, maquina_id, lat, now) ==
    IF df.rows = <<>> \/ metric \notin df.columns THEN [lat |-> lat, alerts |-> <<>>]
    ELSE ooc_loop(df, TailIdx(df, PERSISTENCE_CRITICAL), ooc_limits(df, metric),
                  maquina_id, metric, now, [lat |-> lat, alerts |-> <<>>])

\* the rows of df outside the safe range of metric, in frame order
violations(df, metric) ==
    SelectSeq([i \in DOMAIN df.rows |-> i],
              LAMBDA i : \/ df.rows[i][metric] < MinSafe(metric)
                         \/ df.rows[i][metric] > MaxSafe(metric))

\* the inner loop of detect_safety_violations (lines 317-334)
RECURSIVE safety_rows(_, _, _, _, _, _)
safety_rows(df, idxs, maquina_id, metric, now, st) ==
    IF idxs = <<>> THEN st
    ELSE LET i         == Head(idxs)
             alert_key == AlertKey(maquina_id, metric, "SAFETY")
             st2       == IF ~_is_in_cooldown(st.lat, alert_key, now)
                          THEN [lat    |-> registrar(st.lat, alert_key, now),
                                alerts |-> Append(st.alerts,
                                              NovoAlerta(df, i, maquina_id, metric,
                                                         "ANOMALY", "CRITICAL"))]
                          ELSE st
         IN  safety_rows(df, Tail(idxs), maquina_id, metric, now, st2)

\* the outer loop over safety_rules (lines 309-315)
RECURSIVE safety_metrics(_, _, _, _, _)
safety_metrics(df, metrics, maquina_id, now, st) ==
    IF metrics = <<>> THEN st
    ELSE LET metric == Head(metrics)
             st2    == IF metric \notin df.columns THEN st
                       ELSE safety_rows(df, violations(df, metric), maquina_id,
                                        metric, now, st)
         IN  safety_metrics(df, Tail(metrics), maquina_id, now, st2)

\* AlertDetector.detect_safety_violations: [lat, alerts] after the call
detect_safety_violations(df, maquina_id, lat, now) ==
    safety_metrics(df, SafetyMetrics, maquina_id, now, [lat |-> lat, alerts |-> <<>>])

(***************************************************************************)
(* The detector under load: the telemetry frame of one equipment starts    *)
(* empty or as a run of nominal readings one minute apart, readings arrive *)
(* 5 or 20 minutes after the previous one (nominal, below or above the     *)
(* safe pressure range), the wall clock advances, and the detectors are    *)
(* called on the frame as it stands.                                       *)
(***************************************************************************)
MaxLeituras == 3

BaseRows == 12

MaxRelogio == 15

PRESSAO_NOMINAL == (PRESSURE_MIN_SAFE + PRESSURE_MAX_SAFE) \div 2

LeituraValues == {PRESSURE_MIN_SAFE - 2, PRESSAO_NOMINAL, PRESSURE_MAX_SAFE + 2}

LeituraGaps == {5, 20}

BaseFrame(base) ==
    [columns |-> {"timestamp", "pressao_mpa"},
     rows    |-> [i \in 1..base |-> [timestamp |-> i, pressao_mpa |-> PRESSAO_NOMINAL]]]

Maquinas == {"1"}

AlertMetrics == {"pressao_mpa", "temp_matriz_c"}

TickSteps == {COOLDOWN_MINUTES - 1, COOLDOWN_MINUTES}

Chamada(op, metric, maquina_id, r) ==
    [op         |-> op,
     df         |-> df_maq,
     metric     |-> metric,
     maquina_id |-> maquina_id,
     lat_before |-> last_alert_time,
     now        |-> relogio,
     alerts     |-> r.alerts]

\* a reading is appended to the frame
NovaLeitura(gap, value) ==
    /\ n_leituras < MaxLeituras
    /\ n_leituras' = n_leituras + 1
    /\ df_maq' = [df_maq EXCEPT !.rows =
                    Append(@, [timestamp   |-> (IF @ = <<>> THEN 0
                                                ELSE @[Len(@)].timestamp) + gap,
                               pressao_mpa |-> value])]
    /\ UNCHANGED <<last_alert_time, relogio, ultima>>

DetectOutOfControl(metric, maquina_id) ==
    LET r == detect_out_of_control(df_maq, metric, maquina_id, last_alert_time, relogio)
    IN  /\ last_alert_time' = r.lat
        /\ ultima' = <<Chamada("detect_out_of_control", metric, maquina_id, r)>>
        /\ UNCHANGED <<relogio, df_maq, n_leituras>>

DetectSafetyViolations(maquina_id) ==
    LET r == detect_safety_violations(df_maq, maquina_id, last_alert_time, relogio)
    IN  /\ last_alert_time' = r.lat
        /\ ultima' = <<Chamada("detect_safety_violations", "", maquina_id, r)>>
        /\ UNCHANGED <<relogio, df_maq, n_leituras>>

\* datetime.now() moves on between two calls
TickAlert(d) ==
    /\ relogio + d <= MaxRelogio
    /\ relogio' = relogio + d
    /\ UNCHANGED <<last_alert_time, ultima, df_maq, n_leituras>>

InitAlert ==
    /\ last_alert_time = <<>>
    /\ relogio = 0
    /\ ultima = <<>>
    /\ df_maq \in {BaseFrame(0), BaseFrame(BaseRows)}
    /\ n_leituras = 0
    /\ IdleProd /\ IdleTele /\ IdlePeriodo /\ IdleKpi /\ IdleEvt /\ IdleEtl /\ IdleConc

NextAlert ==
    /\ \/ \E gap \in LeituraGaps, value \in LeituraValues : NovaLeitura(gap, value)
       \/ \E metric \in AlertMetrics, maquina_id \in Maquinas :
             DetectOutOfControl(metric, maquina_id)
       \/ \E maquina_id \in Maquinas : DetectSafetyViolations(maquina_id)
       \/ \E d \in TickSteps : TickAlert(d)
    /\ UNCHANGED <<vars_prod, vars_tele, vars_periodo, vars_kpi, vars_evt, vars_etl, vars_conc>>

SpecAlert == InitAlert /\ [][NextAlert]_vars

(***************************************************************************)
(* app/domain/kpis.py: calculate_mttr_mtbf.                                *)
(*   An events frame is a sequence of rows [timestamp, duracao_min];       *)
(*   timestamps are in minutes.  A float result is the exact rational      *)
(*   <<numerator, denominator>>.                                           *)
(***************************************************************************)
Rat(n, d) == <<n, d>>

RatEq(a, b) == a[1] * b[2] = b[1] * a[2]

\* pd.to_numeric(...).fillna(0.0)
fillna0(x) == IF IsNa(x) THEN 0 ELSE Val(x)

\* the quotients taken over every event instead of over the failures
calculate_mttr_mtbf_por_evento(evt_df) ==
    LET falhas == SelectSeq(evt_df, LAMBDA r : fillna0(r.duracao_min) > 0)
        total_down_time == SumSeq([i \in DOMAIN falhas |-> fillna0(falhas[i].duracao_min)])
        min_ts == ts_min(evt_df)
        max_ts == ts_max(evt_df)
    IN  IF evt_df = <<>> \/ falhas = <<>> THEN [mttr |-> Rat(0, 1), mtbf |-> Rat(0, 1)]
        ELSE IF IsNa(min_ts) \/ IsNa(max_ts) \/ min_ts = max_ts
        THEN [mttr |-> Rat(total_down_time, Len(evt_df)), mtbf |-> Rat(0, 1)]
        ELSE LET tempo_total_min == Val(max_ts) - Val(min_ts)
                 tempo_operacao  == IF tempo_total_min - total_down_time > 0
                                    THEN tempo_total_min - total_down_time ELSE 0
             IN  [mttr |-> Rat(total_down_time, Len(evt_df)),
                  mtbf |-> Rat(tempo_operacao, Len(evt_df))]

\* a degenerate span answered with (0, 0)
calculate_mttr_mtbf_zera_mttr(evt_df) ==
    LET falhas == SelectSeq(evt_df, LAMBDA r : fillna0(r.duracao_min) > 0)
        total_down_time == SumSeq([i \in DOMAIN falhas |-> fillna0(falhas[i].duracao_min)])
        num_falhas == Len(falhas)
        min_ts == ts_min(evt_df)
        max_ts == ts_max(evt_df)
    IN  IF evt_df = <<>> \/ falhas = <<>> THEN [mttr |-> Rat(0, 1), mtbf |-> Rat(0, 1)]
        ELSE IF IsNa(min_ts) \/ IsNa(max_ts) \/ min_ts = max_ts
        THEN [mttr |-> Rat(0, 1), mtbf |-> Rat(0, 1)]
        ELSE LET tempo_total_min == Val(max_ts) - Val(min_ts)
                 tempo_operacao  == IF tempo_total_min - total_down_time > 0
                                    THEN tempo_total_min - total_down_time ELSE 0
             IN  [mttr |-> Rat(total_down_time, num_falhas),
                  mtbf |-> Rat(tempo_operacao, num_falhas)]

\* calculate_mttr_mtbf, lines 292-324
calculate_mttr_mtbf(evt_df) ==
    LET falhas == SelectSeq(evt_df, LAMBDA r : fillna0(r.duracao_min) > 0)
        total_down_time == SumSeq([i \in DOMAIN falhas |-> fillna0(falhas[i].duracao_min)])
        num_falhas == Len(falhas)
        min_ts == ts_min(evt_df)
        max_ts == ts_max(evt_df)
    IN  IF evt_df = <<>> \/ falhas = <<>> THEN [mttr |-> Rat(0, 1), mtbf |-> Rat(0, 1)]
        ELSE IF IsNa(min_ts) \/ IsNa(max_ts) \/ min_ts = max_ts
        THEN [mttr |-> Rat(total_down_time, num_falhas), mtbf |-> Rat(0, 1)]
        ELSE LET tempo_total_min == Val(max_ts) - Val(min_ts)
                 tempo_operacao  == IF tempo_total_min - total_down_time > 0
                                    THEN tempo_total_min - total_down_time ELSE 0
             IN  [mttr |-> Rat(total_down_time, num_falhas),
                  mtbf |-> Rat(tempo_operacao, num_falhas)]

MaxEvtRows == 3

MttrTimestamps == {NaN, Num(0), Num(60), Num(600)}

MttrDuracoes == {NaN, Num(0 - 5), Num(0), Num(30), Num(60), Num(90)}

MttrRows == [timestamp : MttrTimestamps, duracao_min : MttrDuracoes]

CalculateMttrMtbf ==
    /\ kpi_ret = <<>>
    /\ kpi_ret' = <<calculate_mttr_mtbf(kpi_args.evt_df)>>
    /\ UNCHANGED kpi_args

InitMttr ==
    /\ \E evt_df \in SeqsUpTo(MttrRows, MaxEvtRows) : kpi_args = [evt_df |-> evt_df]
    /\ kpi_ret = <<>>
    /\ IdleProd /\ IdleTele /\ IdlePeriodo /\ IdleAlert /\ IdleEvt /\ IdleEtl /\ IdleConc

NextMttr ==
    CalculateMttrMtbf /\ UNCHANGED <<vars_prod, vars_tele, vars_periodo, vars_alert, vars_evt, vars_etl, vars_conc>>

SpecMttr == InitMttr /\ [][NextMttr]_vars

(***************************************************************************)
(* app/domain/kpis.py: compute_refugo_by_turno.                            *)
(*   A row is [turno, pecas_produzidas, pecas_refugadas]; turno is "" when *)
(*   missing (groupby drops such rows).  pct_refugo is carried in tenths   *)
(*   of a percent, the unit round(1) leaves.  sort_values does not fix the *)
(*   order of equal keys: every descending arrangement is a possible       *)
(*   return value.                                                         *)
(***************************************************************************)
\* the group keys in the order groupby sorts them
Turnos == <<"Turno A (06h-14h)", "Turno B (14h-22h)", "Turno C (22h-06h)">>

\* n / d rounded to the nearest integer, halves to the even neighbour (d > 0)
RoundHalfEven(n, d) ==
    LET q == n \div d
        r == n % d
    IN  IF 2 * r < d THEN q
        ELSE IF 2 * r > d THEN q + 1
        ELSE IF q % 2 = 0 THEN q ELSE q + 1

\* the ratio left as a fraction, not a percentage
pct_refugo_fracao(pecas_produzidas, pecas_refugadas) ==
    IF pecas_produzidas = 0 THEN 0
    ELSE IF pecas_produzidas > 0
         THEN RoundHalfEven(pecas_refugadas * 10, pecas_produzidas)
         ELSE RoundHalfEven((0 - pecas_refugadas) * 10, 0 - pecas_produzidas)

\* line 286, in tenths: (refugadas / produzidas.replace(0, nan) * 100).fillna(0).round(1)
pct_refugo(pecas_produzidas, pecas_refugadas) ==
    IF pecas_produzidas = 0 THEN 0
    ELSE IF pecas_produzidas > 0
         THEN RoundHalfEven(pecas_refugadas * 1000, pecas_produzidas)
         ELSE RoundHalfEven((0 - pecas_refugadas) * 1000, 0 - pecas_produzidas)

\* line 285: df.groupby("turno")[...].sum().reset_index(), with line 286
grp_refugo(prod_df) ==
    LET keys == SelectSeq(Turnos, LAMBDA t : \E i \in DOMAIN prod_df : prod_df[i].turno = t)
        soma(t, col) == SumSeq([i \in DOMAIN prod_df |->
                                  IF prod_df[i].turno = t THEN fillna0(prod_df[i][col]) ELSE 0])
    IN  [k \in DOMAIN keys |->
            [turno            |-> keys[k],
             pecas_produzidas |-> soma(keys[k], "pecas_produzidas"),
             pecas_refugadas  |-> soma(keys[k], "pecas_refugadas"),
             pct_refugo       |-> pct_refugo(soma(keys[k], "pecas_produzidas"),
                                             soma(keys[k], "pecas_refugadas"))]]

\* line 287: the arrangements sort_values("pct_refugo", ascending=False) can return
sort_values_desc(grp) ==
    {s \in [DOMAIN grp -> Range(grp)] :
        /\ \A g \in Range(grp) : \E i \in DOMAIN s : s[i] = g
        /\ \A i \in DOMAIN s : \A j \in DOMAIN s :
              i < j => s[i].pct_refugo >= s[j].pct_refugo}

\* compute_refugo_by_turno: the set of frames it can return
compute_refugo_by_turno(prod_df) ==
    IF prod_df = <<>> THEN {<<>>} ELSE sort_values_desc(grp_refugo(prod_df))

MaxRefugoRows == 3

RefugoCounts ==
    {<<Num(1000), Num(50)>>, <<Num(1000), Num(100)>>, <<Num(1000), Num(20)>>,
     <<Num(0), Num(20)>>, <<NaN, NaN>>, <<Num(3), Num(1)>>}

RefugoRows ==
    {[turno |-> t, pecas_produzidas |-> c[1], pecas_refugadas |-> c[2]] :
        t \in Range(Turnos), c \in RefugoCounts}
    \cup {[turno |-> "", pecas_produzidas |-> Num(1000), pecas_refugadas |-> Num(50)]}

ComputeRefugoByTurno ==
    /\ kpi_ret = <<>>
    /\ \E ret \in compute_refugo_by_turno(kpi_args.prod_df) : kpi_ret' = <<ret>>
    /\ UNCHANGED kpi_args

InitRefugo ==
    /\ \E prod_df \in SeqsUpTo(RefugoRows, MaxRefugoRows) : kpi_args = [prod_df |-> prod_df]
    /\ kpi_ret = <<>>
    /\ IdleProd /\ IdleTele /\ IdlePeriodo /\ IdleAlert /\ IdleEvt /\ IdleEtl /\ IdleConc

NextRefugo ==
    ComputeRefugoByTurno
        /\ UNCHANGED <<vars_prod, vars_tele, vars_periodo, vars_alert, vars_evt, vars_etl, vars_conc>>

SpecRefugo == InitRefugo /\ [][NextRefugo]_vars

(***************************************************************************)
(* app/domain/kpis.py: compute_oee_kpis.  The four ratios are exact        *)
(* rationals <<numerator, denominator>> with a positive denominator.       *)
(***************************************************************************)
CAPACIDADE_NOMINAL_HORA == 1000

RatMul(a, b) == <<a[1] * b[1], a[2] * b[2]>>

OeeZeros ==
    [disponibilidade |-> Rat(0, 1), performance |-> Rat(0, 1),
     qualidade |-> Rat(0, 1), oee |-> Rat(0, 1)]

\* compute_oee_kpis, lines 141-169; clock is the reading of pd.Timestamp.now()
\* made by the selector
compute_oee_kpis(df_producao, capacidade_nominal_hora, modo_periodo, clock) ==
    IF df_producao.rows = <<>> THEN OeeZeros
    ELSE
    LET sel == selecionar_periodo_inteligente(df_producao, modo_periodo, clock)
        prod_periodo == SelectSeq(df_producao.rows,
                           LAMBDA r : Ge(r.timestamp, sel.inicio) /\ Le(r.timestamp, sel.fim))
        total_produzido == SumSeq([i \in DOMAIN prod_periodo |-> prod_periodo[i].pecas_produzidas])
        total_refugado  == SumSeq([i \in DOMAIN prod_periodo |-> prod_periodo[i].pecas_refugadas])
        pecas_boas      == total_produzido - total_refugado
        qualidade       == IF total_produzido > 0 THEN Rat(pecas_boas, total_produzido)
                           ELSE Rat(0, 1)
        tempo_programado_horas == Len(prod_periodo)
        tempo_operando_horas   ==
            Len(SelectSeq(prod_periodo, LAMBDA r : r.pecas_produzidas > 0))
        disponibilidade == Rat(tempo_operando_horas, tempo_programado_horas)
        capacidade_teorica_total == tempo_programado_horas * capacidade_nominal_hora
        performance     == IF capacidade_teorica_total > 0
                           THEN Rat(total_produzido, capacidade_teorica_total)
                           ELSE Rat(0, 1)
    IN  IF prod_periodo = <<>> THEN OeeZeros
        ELSE [disponibilidade |-> disponibilidade,
              performance     |-> performance,
              qualidade       |-> qualidade,
              oee |-> RatMul(RatMul(disponibilidade, performance), qualidade)]

MaxOeeRows == 2

OeeTimestamps == {NaN, Num(Midnight(1) + 3600), Num(Midnight(2) + 3600)}

OeeProduzidas == {0 - 10, 0, 600}

OeeRefugadas == {0 - 5, 0, 30, 700}

OeeRows ==
    [timestamp : OeeTimestamps, pecas_produzidas : OeeProduzidas,
     pecas_refugadas : OeeRefugadas]

OeeModos == {"auto", "24h"}

ComputeOeeKpis ==
    /\ kpi_ret = <<>>
    /\ kpi_ret' = <<compute_oee_kpis(kpi_args.producao_df, kpi_args.capacidade_nominal_hora,
                                     kpi_args.modo_periodo, kpi_args.agora)>>
    /\ UNCHANGED kpi_args

InitOee ==
    /\ \E rows \in SeqsUpTo(OeeRows, MaxOeeRows), modo \in OeeModos :
          kpi_args = [producao_df |-> [ts_dtype |-> "datetime64", rows |-> rows],
                      capacidade_nominal_hora |-> CAPACIDADE_NOMINAL_HORA,
                      modo_periodo |-> modo,
                      agora |-> Midnight(3)]
    /\ kpi_ret = <<>>
    /\ IdleProd /\ IdleTele /\ IdlePeriodo /\ IdleAlert /\ IdleEvt /\ IdleEtl /\ IdleConc

NextOee ==
    ComputeOeeKpis /\ UNCHANGED <<vars_prod, vars_tele, vars_periodo, vars_alert, vars_evt, vars_etl, vars_conc>>

SpecOee == InitOee /\ [][NextOee]_vars

(***************************************************************************)
(* app/domain/kpis.py: pareto_paradas on the silver events frame.  A row   *)
(* is [descricao, duracao_min, severidade]; severidade is the numeric code *)
(* process_eventos derives.  sort_values leaves the order of equal counts  *)
(* open: every descending arrangement is a possible return value.          *)
(***************************************************************************)
TiposEvento == <<"Falha de Motor", "Parada Programada">>

\* lines 345-352: groupby(col_evento).agg(count, tempo_total_min)
grouped_paradas(df) ==
    LET keys == SelectSeq(TiposEvento, LAMBDA t : \E i \in DOMAIN df : df[i].descricao = t)
    IN  [k \in DOMAIN keys |->
            [descricao       |-> keys[k],
             count           |-> Cardinality({i \in DOMAIN df : df[i].descricao = keys[k]}),
             tempo_total_min |-> SumSeq([i \in DOMAIN df |->
                                    IF df[i].descricao = keys[k] THEN df[i].duracao_min
                                    ELSE 0])]]

\* pareto_paradas: the set of frames it can return (line 355 sorts by count)
pareto_paradas(df) ==
    LET grouped == grouped_paradas(df)
    IN  {s \in [DOMAIN grouped -> Range(grouped)] :
            /\ \A g \in Range(grouped) : \E i \in DOMAIN s : s[i] = g
            /\ \A i \in DOMAIN s : \A j \in DOMAIN s : i < j => s[i].count >= s[j].count}

MaxParetoRows == 3

ParetoRows ==
    [descricao : Range(TiposEvento), duracao_min : {0, 30}, severidade : 0..3]

ParetoParadas ==
    /\ kpi_ret = <<>>
    /\ \E ret \in pareto_paradas(kpi_args.df) : kpi_ret' = <<ret>>
    /\ UNCHANGED kpi_args

InitPareto ==
    /\ \E df \in SeqsUpTo(ParetoRows, MaxParetoRows) : kpi_args = [df |-> df]
    /\ kpi_ret = <<>>
    /\ IdleProd /\ IdleTele /\ IdlePeriodo /\ IdleAlert /\ IdleEvt /\ IdleEtl /\ IdleConc

NextPareto ==
    ParetoParadas /\ UNCHANGED <<vars_prod, vars_tele, vars_periodo, vars_alert, vars_evt, vars_etl, vars_conc>>

SpecPareto == InitPareto /\ [][NextPareto]_vars

(***************************************************************************)
(* pipeline_etl.py: process_eventos.  A raw row is [timestamp, maquina_id, *)
(* evento, severidade]; timestamps are in hours, a missing text or number  *)
(* is NaN.  The call either raises (astype(int) on a missing maquina_id)   *)
(* or returns (frame, quality report); sort_values leaves the order of     *)
(* equal timestamps open.                                                  *)
(***************************************************************************)
\* the mapping without the unaccented spelling
mapa_sev_so_acentuado(severidade_texto) ==
    IF IsNa(severidade_texto) THEN NaN
    ELSE CASE Val(severidade_texto) = "Baixa" -> Num(1)
           [] Val(severidade_texto) = "Média" -> Num(2)
           [] Val(severidade_texto) = "Alta"  -> Num(3)
           [] OTHER -> NaN

\* Series.map(mapa_sev), lines 401-407: NaN for a text the dict lacks
mapa_sev(severidade_texto) ==
    IF IsNa(severidade_texto) THEN NaN
    ELSE CASE Val(severidade_texto) = "Baixa" -> Num(1)
           [] Val(severidade_texto) = "Média" -> Num(2)
           [] Val(severidade_texto) = "Media" -> Num(2)
           [] Val(severidade_texto) = "Alta"  -> Num(3)
           [] OTHER -> NaN

\* steps 2-4 on one row
evento_silver(r) ==
    [timestamp        |-> r.timestamp,
     id_maquina       |-> r.maquina_id,
     descricao        |-> r.evento,
     severidade_texto |-> r.severidade,
     severidade       |-> fillna0(mapa_sev(r.severidade)),
     data             |-> Val(r.timestamp) \div 24]

\* the orders of the rows that sort_values("timestamp") can produce
sort_by_timestamp(evt) ==
    LET n == Len(evt)
        perms == {p \in [1..n -> 1..n] :
                     /\ \A i \in 1..n : \A j \in 1..n : i # j => p[i] # p[j]
                     /\ \A i \in 1..n : \A j \in 1..n :
                           i < j => Val(evt[p[i]].timestamp) <= Val(evt[p[j]].timestamp)}
    IN  {[i \in 1..n |-> evt[p[i]]] : p \in perms}

\* process_eventos: the set of outcomes of one call
process_eventos(raw) ==
    LET parsed == SelectSeq(raw, LAMBDA r : ~IsNa(r.timestamp))
        mapped == [i \in DOMAIN parsed |-> evento_silver(parsed[i])]
    IN  IF \E i \in DOMAIN mapped : IsNa(mapped[i].id_maquina)
        THEN {[raised |-> TRUE]}
        ELSE {[raised  |-> FALSE,
               silver  |-> evt,
               quality |-> [dataset       |-> "eventos_silver",
                            total_records |-> Len(evt),
                            duplicates    |-> duplicated_count(evt),
                            null_severidade_texto |-> null_count(evt, "severidade_texto")]] :
                 evt \in sort_by_timestamp(mapped)}

MaxRawEvtRows == 2

RawEvtTimestamps == {NaN, Num(5), Num(30)}

RawEvtSeveridades ==
    {NaN, Num("Baixa"), Num("Média"), Num("Media"), Num("Alta"), Num("Critica")}

RawEvtRows ==
    [timestamp : RawEvtTimestamps, maquina_id : {NaN, Num(1)},
     evento : {"Falha de Motor"}, severidade : RawEvtSeveridades]

ProcessEventos ==
    /\ evt_out = <<>>
    /\ \E out \in process_eventos(evt_raw) : evt_out' = <<out>>
    /\ UNCHANGED evt_raw

InitEventos ==
    /\ evt_raw \in SeqsUpTo(RawEvtRows, MaxRawEvtRows)
    /\ evt_out = <<>>
    /\ IdleProd /\ IdleTele /\ IdlePeriodo /\ IdleAlert /\ IdleKpi /\ IdleEtl /\ IdleConc

NextEventos ==
    ProcessEventos /\ UNCHANGED <<vars_prod, vars_tele, vars_periodo, vars_alert, vars_kpi, vars_etl, vars_conc>>

SpecEventos == InitEventos /\ [][NextEventos]_vars

(***************************************************************************)
(* pipeline_etl.py: run_etl_pipeline.  The body of the try block is the    *)
(* sequence EtlSteps; a statement completes or raises, and the two except  *)
(* clauses turn what was raised into the outcome of the call.              *)
(***************************************************************************)
RawFiles == {"telemetria_raw.csv", "producao_raw.csv", "eventos_raw.csv"}

SilverCsvs == {"telemetria_silver.csv", "producao_silver.csv", "eventos_silver.csv"}

ParquetSets == {"parquet/telemetria", "parquet/producao", "parquet/eventos"}

QualityReport == "quality_report.json"

\* the files of an earlier run that a run can find on disk; the report's
\* name carries the time of the run, so it is new each time
PreviousOutputs == SilverCsvs \cup ParquetSets \cup {"kpis_daily_gold.csv"}

OutputFiles == PreviousOutputs \cup {QualityReport}

EtlStages == <<"read", "process", "aggregate", "save", "report">>

\* lines 481-539, one record per statement that can raise
EtlSteps ==
    << [stage |-> "read",      op |-> "read_csv", file |-> "telemetria_raw.csv"],
       [stage |-> "read",      op |-> "read_csv", file |-> "producao_raw.csv"],
       [stage |-> "read",      op |-> "read_csv", file |-> "eventos_raw.csv"],
       [stage |-> "process",   op |-> "call",     file |-> "process_telemetria"],
       [stage |-> "process",   op |-> "call",     file |-> "process_producao"],
       [stage |-> "process",   op |-> "call",     file |-> "process_eventos"],
       [stage |-> "aggregate", op |-> "call",     file |-> "create_gold_kpis"],
       [stage |-> "save",      op |-> "write",    file |-> "telemetria_silver.csv"],
       [stage |-> "save",      op |-> "write",    file |-> "producao_silver.csv"],
       [stage |-> "save",      op |-> "write",    file |-> "eventos_silver.csv"],
       [stage |-> "save",      op |-> "call",     file |-> "parquet_dir.mkdir"],
       [stage |-> "save",      op |-> "write",    file |-> "parquet/telemetria"],
       [stage |-> "save",      op |-> "write",    file |-> "parquet/producao"],
       [stage |-> "save",      op |-> "write",    file |-> "parquet/eventos"],
       [stage |-> "save",      op |-> "write",    file |-> "kpis_daily_gold.csv"],
       [stage |-> "report",    op |-> "write",    file |-> QualityReport] >>

\* what a statement can do: complete ("ok") or raise; a read of an absent
\* file raises FileNotFoundError, everything else that fails raises some
\* other Exception
outcomes(step, bronze) ==
    IF step.op = "read_csv" /\ step.file \notin bronze
    THEN {"FileNotFoundError"}
    ELSE {"ok", "Exception"}

\* an except chain that lacks the second clause
except_so_arquivo(raised) ==
    IF raised = "FileNotFoundError" THEN [propagated |-> FALSE, value |-> FALSE]
    ELSE [propagated |-> TRUE, value |-> FALSE]

\* lines 559-568: both clauses return False
except_clauses(raised) ==
    IF raised = "FileNotFoundError" THEN [propagated |-> FALSE, value |-> FALSE]
    ELSE [propagated |-> FALSE, value |-> FALSE]

\* the stages whose last statement is before position pc
stages_done(pc) ==
    SelectSeq(EtlStages,
              LAMBDA st : \A k \in DOMAIN EtlSteps : EtlSteps[k].stage = st => k < pc)

\* one statement of the try block, with the except clause when it raises;
\* a write that raises may or may not have touched its file
EtlStep ==
    /\ etl_ret = <<>>
    /\ etl_pc \in DOMAIN EtlSteps
    /\ LET step == EtlSteps[etl_pc]
       IN  \E o \in outcomes(step, etl_bronze) :
             \E touched \in BOOLEAN :
               /\ touched = TRUE \/ (o # "ok" /\ step.op = "write")
               /\ step.op # "write" => touched = TRUE
               /\ LET wrote == IF step.op = "write" /\ touched THEN {step.file} ELSE {}
                  IN  /\ etl_written' = etl_written \cup wrote
                      /\ etl_disk' = etl_disk \cup wrote
               /\ IF o = "ok"
                  THEN /\ etl_pc' = etl_pc + 1
                       /\ etl_stages' = stages_done(etl_pc + 1)
                       /\ etl_ret' = etl_ret
                  ELSE /\ etl_ret' = <<except_clauses(o)>>
                       /\ UNCHANGED <<etl_pc, etl_stages>>
    /\ UNCHANGED etl_bronze

\* line 570
EtlReturnTrue ==
    /\ etl_ret = <<>>
    /\ etl_pc = Len(EtlSteps) + 1
    /\ etl_ret' = <<[propagated |-> FALSE, value |-> TRUE]>>
    /\ UNCHANGED <<etl_bronze, etl_disk, etl_pc, etl_stages, etl_written>>

InitEtl ==
    /\ etl_bronze \in SUBSET RawFiles
    /\ etl_disk \in SUBSET PreviousOutputs
    /\ etl_pc = 1
    /\ etl_stages = <<>>
    /\ etl_written = {}
    /\ etl_ret = <<>>
    /\ IdleProd /\ IdleTele /\ IdlePeriodo /\ IdleAlert /\ IdleKpi /\ IdleEvt /\ IdleConc

NextEtl ==
    (EtlStep \/ EtlReturnTrue)
    /\ UNCHANGED <<vars_prod, vars_tele, vars_periodo, vars_alert, vars_kpi, vars_evt, vars_conc>>

SpecEtl == InitEtl /\ [][NextEtl]_vars

(***************************************************************************)
(* app/domain/kpis.py: the aggregations called on a frame that lacks some  *)
(* of its columns.  A frame is a set of column names and its rows; a row   *)
(* carries a field for every column, the fields of absent columns are not  *)
(* read.  A call returns [raised |-> FALSE, value |-> v] or raises:        *)
(* [raised |-> TRUE, value |-> the exception].  DataFrame.empty is true    *)
(* for a frame with no rows or no columns.                                 *)
(***************************************************************************)
Returned(v) == [raised |-> FALSE, value |-> v]

Raised(e) == [raised |-> TRUE, value |-> e]

empty(columns, rows) == rows = <<>> \/ columns = {}

\* lines 141-169 with the column look-ups of lines 35, 58, 152, 156, 157
compute_oee_kpis_cols(columns, rows, modo_periodo, clock) ==
    LET df == [ts_dtype |-> "datetime64", rows |-> rows]
    IN  IF empty(columns, rows) THEN Returned(OeeZeros)
        ELSE IF "timestamp" \notin columns THEN Returned(OeeZeros)
        ELSE IF modo_periodo \notin {"24h", "ontem"} /\ "pecas_produzidas" \notin columns
        THEN Raised("KeyError")
        ELSE LET sel == selecionar_periodo_inteligente(df, modo_periodo, clock)
                 prod_periodo == SelectSeq(rows,
                     LAMBDA r : Ge(r.timestamp, sel.inicio) /\ Le(r.timestamp, sel.fim))
             IN  IF prod_periodo = <<>> THEN Returned(OeeZeros)
                 ELSE IF "pecas_produzidas" \notin columns THEN Raised("KeyError")
                 ELSE IF "pecas_refugadas" \notin columns THEN Raised("KeyError")
                 ELSE Returned(compute_oee_kpis(df, CAPACIDADE_NOMINAL_HORA,
                                                modo_periodo, clock))

\* line 181: R$ 0.75 per kWh
CUSTO_KWH == Rat(3, 4)

\* compute_energy_cost, lines 174-186
compute_energy_cost(columns, rows) ==
    IF empty(columns, rows) \/ "consumo_kwh" \notin columns
    THEN Returned([custo_por_peca |-> Rat(0, 1), custo_total_energia |-> Rat(0, 1)])
    ELSE LET total_kwh == SumSeq([i \in DOMAIN rows |-> rows[i].consumo_kwh])
             custo_total_energia == RatMul(Rat(total_kwh, 1), CUSTO_KWH)
         IN  IF "pecas_produzidas" \notin columns THEN Raised("KeyError")
             ELSE LET soma_pecas == SumSeq([i \in DOMAIN rows |-> rows[i].pecas_produzidas])
                  IN  Returned([custo_por_peca |->
                                    IF soma_pecas > 0
                                    THEN Rat(custo_total_energia[1],
                                             custo_total_energia[2] * soma_pecas)
                                    ELSE Rat(0, 1),
                                custo_total_energia |-> custo_total_energia])

\* compute_refugo_by_turno, lines 277-283: df.get(col, pd.Series([])) makes an
\* absent count column a column of NaN
compute_refugo_by_turno_cols(columns, rows) ==
    IF empty(columns, rows) \/ "turno" \notin columns THEN {Returned(<<>>)}
    ELSE LET df == [i \in DOMAIN rows |->
                      [turno |-> rows[i].turno,
                       pecas_produzidas |-> IF "pecas_produzidas" \in columns
                                            THEN rows[i].pecas_produzidas ELSE NaN,
                       pecas_refugadas  |-> IF "pecas_refugadas" \in columns
                                            THEN rows[i].pecas_refugadas ELSE NaN]]
         IN  {Returned(ret) : ret \in compute_refugo_by_turno(df)}

\* calculate_mttr_mtbf, lines 296-314: an absent duracao_min is created as 0.0,
\* an absent timestamp is read at line 314 once there is a failure
calculate_mttr_mtbf_cols(columns, rows) ==
    IF empty(columns, rows) THEN Returned([mttr |-> Rat(0, 1), mtbf |-> Rat(0, 1)])
    ELSE LET df == [i \in DOMAIN rows |->
                      [timestamp   |-> rows[i].timestamp,
                       duracao_min |-> IF "duracao_min" \in columns
                                       THEN rows[i].duracao_min ELSE Num(0)]]
             falhas == SelectSeq(df, LAMBDA r : fillna0(r.duracao_min) > 0)
         IN  IF falhas = <<>> THEN Returned([mttr |-> Rat(0, 1), mtbf |-> Rat(0, 1)])
             ELSE IF "timestamp" \notin columns THEN Raised("KeyError")
             ELSE Returned(calculate_mttr_mtbf(df))

\* pareto_paradas, lines 333-342: the event column is "evento" or "descricao"
pareto_paradas_cols(columns, rows) ==
    IF "evento" \notin columns /\ "descricao" \notin columns THEN {Raised("KeyError")}
    ELSE LET df == [i \in DOMAIN rows |->
                      [descricao   |-> rows[i].descricao,
                       duracao_min |-> IF "duracao_min" \in columns
                                       THEN rows[i].duracao_min ELSE 0,
                       severidade  |-> rows[i].severidade]]
         IN  {Returned(ret) : ret \in pareto_paradas(df)}

\* the columns each aggregation reads
DependsOn ==
    [compute_oee_kpis        |-> {"timestamp", "pecas_produzidas", "pecas_refugadas"},
     compute_energy_cost     |-> {"consumo_kwh", "pecas_produzidas"},
     compute_refugo_by_turno |-> {"turno", "pecas_produzidas", "pecas_refugadas"},
     calculate_mttr_mtbf     |-> {"timestamp", "duracao_min"},
     pareto_paradas          |-> {"descricao", "duracao_min"}]

MaxColRows == 1

EnergyRows == [consumo_kwh : {0, 100}, pecas_produzidas : {0, 50}]

ColRows ==
    [compute_oee_kpis        |-> OeeRows,
     compute_energy_cost     |-> EnergyRows,
     compute_refugo_by_turno |-> RefugoRows,
     calculate_mttr_mtbf     |-> MttrRows,
     pareto_paradas          |-> ParetoRows]

ColArgs(fn) ==
    {[fn |-> fn, columns |-> c, rows |-> r, modo_periodo |-> m, agora |-> Midnight(3)] :
        c \in SUBSET DependsOn[fn], r \in SeqsUpTo(ColRows[fn], MaxColRows),
        m \in IF fn = "compute_oee_kpis" THEN OeeModos ELSE {"auto"}}

CallOee ==
    /\ kpi_ret = <<>> /\ kpi_args.fn = "compute_oee_kpis"
    /\ kpi_ret' = <<compute_oee_kpis_cols(kpi_args.columns, kpi_args.rows,
                                          kpi_args.modo_periodo, kpi_args.agora)>>
    /\ UNCHANGED kpi_args

CallEnergyCost ==
    /\ kpi_ret = <<>> /\ kpi_args.fn = "compute_energy_cost"
    /\ kpi_ret' = <<compute_energy_cost(kpi_args.columns, kpi_args.rows)>>
    /\ UNCHANGED kpi_args

CallRefugo ==
    /\ kpi_ret = <<>> /\ kpi_args.fn = "compute_refugo_by_turno"
    /\ \E ret \in compute_refugo_by_turno_cols(kpi_args.columns, kpi_args.rows) :
          kpi_ret' = <<ret>>
    /\ UNCHANGED kpi_args

CallMttr ==
    /\ kpi_ret = <<>> /\ kpi_args.fn = "calculate_mttr_mtbf"
    /\ kpi_ret' = <<calculate_mttr_mtbf_cols(kpi_args.columns, kpi_args.rows)>>
    /\ UNCHANGED kpi_args

CallPareto ==
    /\ kpi_ret = <<>> /\ kpi_args.fn = "pareto_paradas"
    /\ \E ret \in pareto_paradas_cols(kpi_args.columns, kpi_args.rows) : kpi_ret' = <<ret>>
    /\ UNCHANGED kpi_args

InitColunas ==
    /\ \E fn \in DOMAIN DependsOn : \E a \in ColArgs(fn) : kpi_args = a
    /\ kpi_ret = <<>>
    /\ IdleProd /\ IdleTele /\ IdlePeriodo /\ IdleAlert /\ IdleEvt /\ IdleEtl /\ IdleConc

NextColunas ==
    (CallOee \/ CallEnergyCost \/ CallRefugo \/ CallMttr \/ CallPareto)
    /\ UNCHANGED <<vars_prod, vars_tele, vars_periodo, vars_alert, vars_evt, vars_etl, vars_conc>>

SpecColunas == InitColunas /\ [][NextColunas]_vars

(***************************************************************************)
(* pipeline_etl.py: two run_etl_pipeline calls in two processes, each      *)
(* started on its own raw data (run r holds the data r), interleaved       *)
(* statement by statement.  to_csv and to_parquet open the output path and *)
(* replace its content; the file then holds the data of the run that wrote *)
(* it last.  The quality report's name carries the time of the run and is  *)
(* not shared.                                                             *)
(***************************************************************************)
Runs == {1, 2}

\* a save stage that holds an exclusive lock from its first to its last write
locked_durante_save(r, pcs) ==
    EtlSteps[pcs[r]].stage = "save" /\
    \E o \in Runs \ {r} :
        /\ pcs[o] \in DOMAIN EtlSteps
        /\ EtlSteps[pcs[o]].stage = "save"
        /\ pcs[o] > 1 /\ EtlSteps[pcs[o] - 1].stage = "save"

\* lines 503-520: the outputs are opened for writing as they are, with no
\* lock file and no exclusive mode, so a statement of run r never waits
locked(r, pcs) == FALSE

ConcStep(r) ==
    /\ conc_ret[r] = <<>>
    /\ conc_pc[r] \in DOMAIN EtlSteps
    /\ ~locked(r, conc_pc)
    /\ LET step == EtlSteps[conc_pc[r]]
       IN  \E o \in outcomes(step, RawFiles) :
             IF o = "ok"
             THEN /\ conc_pc' = [conc_pc EXCEPT ![r] = @ + 1]
                  /\ conc_files' = IF step.op = "write" /\ step.file \in PreviousOutputs
                                   THEN [conc_files EXCEPT ![step.file] = r]
                                   ELSE conc_files
                  /\ conc_ret' = conc_ret
             ELSE /\ conc_ret' = [conc_ret EXCEPT ![r] = <<except_clauses(o).value>>]
                  /\ UNCHANGED <<conc_pc, conc_files>>

ConcReturnTrue(r) ==
    /\ conc_ret[r] = <<>>
    /\ conc_pc[r] = Len(EtlSteps) + 1
    /\ conc_ret' = [conc_ret EXCEPT ![r] = <<TRUE>>]
    /\ UNCHANGED <<conc_pc, conc_files>>

InitConc ==
    /\ conc_pc = [r \in Runs |-> 1]
    /\ conc_ret = [r \in Runs |-> <<>>]
    /\ conc_files = [f \in PreviousOutputs |-> 0]
    /\ IdleProd /\ IdleTele /\ IdlePeriodo /\ IdleAlert /\ IdleKpi /\ IdleEvt /\ IdleEtl

NextConc ==
    (\E r \in Runs : ConcStep(r) \/ ConcReturnTrue(r))
    /\ UNCHANGED <<vars_prod, vars_tele, vars_periodo, vars_alert, vars_kpi, vars_evt, vars_etl>>

SpecConc == InitConc /\ [][NextConc]_vars

(***************************************************************************)
(* app/domain/alerts.py: detect_trend, analyze and compute_alerts.         *)
(*   np.corrcoef(x, y)[0, 1] is Sxy / sqrt(Sxx * Syy) with                 *)
(*   Sxy = n*sum(x*y) - sum(x)*sum(y); it is kept as [num, den2] =         *)
(*   [Sxy, Sxx * Syy] and is NaN when den2 = 0 (a constant series), which  *)
(*   no comparison accepts.  |r| > 7/10 is decided as                      *)
(*   100 * num^2 > 49 * den2.                                              *)
(***************************************************************************)
TREND_WINDOW == 7

TREND_THRESHOLD == Rat(7, 10)

\* np.corrcoef(np.arange(len(recent)), recent)[0, 1]
corrcoef(recent) ==
    LET n   == Len(recent)
        Sx  == SumSeq([i \in 1..n |-> i - 1])
        Sy  == SumSeq(recent)
        Sxy == n * SumSeq([i \in 1..n |-> (i - 1) * recent[i]]) - Sx * Sy
        Sxx == n * SumSeq([i \in 1..n |-> (i - 1) * (i - 1)]) - Sx * Sx
        Syy == n * SumSeq([i \in 1..n |-> recent[i] * recent[i]]) - Sy * Sy
    IN  [num |-> Sxy, den2 |-> Sxx * Syy]

\* correlation > threshold, without the absolute value
AbsAbove_sem_abs(correlation, threshold) ==
    /\ correlation.den2 > 0
    /\ correlation.num > 0
    /\ threshold[2] * threshold[2] * correlation.num * correlation.num
           > threshold[1] * threshold[1] * correlation.den2

\* abs(correlation) > threshold
AbsAbove(correlation, threshold) ==
    /\ correlation.den2 > 0
    /\ threshold[2] * threshold[2] * correlation.num * correlation.num
           > threshold[1] * threshold[1] * correlation.den2

\* AlertDetector.detect_trend: [lat, alerts] after the call
detect_trend(df, metric, maquina_id, lat, now) ==
    IF Len(df.rows) < TREND_WINDOW \/ metric \notin df.columns
    THEN [lat |-> lat, alerts |-> <<>>]
    ELSE LET n           == Len(df.rows)
             recent      == [i \in 1..TREND_WINDOW |-> df.rows[n - TREND_WINDOW + i][metric]]
             correlation == corrcoef(recent)
             alert_key   == AlertKey(maquina_id, metric, "TREND")
         IN  IF AbsAbove(correlation, TREND_THRESHOLD)
                /\ ~_is_in_cooldown(lat, alert_key, now)
             THEN [lat    |-> registrar(lat, alert_key, now),
                   alerts |-> <<NovoAlerta(df, n, maquina_id, metric, "TREND", "MEDIUM")
                                  @@ [direction |-> IF correlation.num > 0
                                                    THEN "ascendente" ELSE "descendente"]>>]
             ELSE [lat |-> lat, alerts |-> <<>>]

\* tele_df['maquina_id'].unique(): the ids in order of first appearance
unique_maquinas(rows) ==
    LET first == SelectSeq([i \in DOMAIN rows |-> i],
                     LAMBDA i : \A j \in 1..(i - 1) : rows[j].maquina_id # rows[i].maquina_id)
    IN  [k \in DOMAIN first |-> rows[first[k]].maquina_id]

\* lines 357-360: the rows of one equipment, sorted by timestamp (the
\* timestamps of one equipment are distinct)
frame_da_maquina(tele_df, maquina_id) ==
    [columns |-> tele_df.columns,
     rows    |-> SortSeq(SelectSeq(tele_df.rows, LAMBDA r : r.maquina_id = maquina_id),
                         LAMBDA a, b : a.timestamp < b.timestamp)]

\* lines 362-374: the loop over metrics for one equipment
RECURSIVE analyze_metrics(_, _, _, _, _)
analyze_metrics(df, metrics, maquina_id, now, st) ==
    IF metrics = <<>> THEN st
    ELSE LET metric == Head(metrics)
             ooc    == detect_out_of_control(df, metric, maquina_id, st.lat, now)
             trend  == detect_trend(df, metric, maquina_id, ooc.lat, now)
             st2    == IF metric \notin df.columns THEN st
                       ELSE [lat    |-> trend.lat,
                             alerts |-> st.alerts \o ooc.alerts \o trend.alerts]
         IN  \* st2 is evaluated here, before the next iteration
             IF DOMAIN st2 = {"lat", "alerts"}
             THEN analyze_metrics(df, Tail(metrics), maquina_id, now, st2)
             ELSE st2

\* lines 356-379: the loop over the equipments
RECURSIVE analyze_maquinas(_, _, _, _, _)
analyze_maquinas(tele_df, maquinas, metrics, now, st) ==
    IF maquinas = <<>> THEN st
    ELSE LET maquina_id == Head(maquinas)
             df     == frame_da_maquina(tele_df, maquina_id)
             st2    == analyze_metrics(df, metrics, maquina_id, now, st)
             safety == detect_safety_violations(df, maquina_id, st2.lat, now)
             st3    == [lat |-> safety.lat, alerts |-> st2.alerts \o safety.alerts]
         IN  \* st3 is evaluated here, before the next iteration
             IF DOMAIN st3 = {"lat", "alerts"}
             THEN analyze_maquinas(tele_df, Tail(maquinas), metrics, now, st3)
             ELSE st3

\* AlertDetector.analyze with the default metrics: [lat, alerts] after the call
analyze(tele_df, lat, now) ==
    IF tele_df.rows = <<>> THEN [lat |-> lat, alerts |-> <<>>]
    ELSE analyze_maquinas(tele_df, unique_maquinas(tele_df.rows), SafetyMetrics, now,
                          [lat |-> lat, alerts |-> <<>>])

\* a constructor that takes the cooldown map from an existing detector
nova_last_alert_time_compartilhada(existente) == existente

\* AlertDetector.__init__, line 184: every instance starts with its own empty
\* map, whatever other detectors hold
nova_last_alert_time(existente) == <<>>

\* compute_alerts with its default arguments: a detector is built, used for
\* one analyze call and dropped
compute_alerts(tele_agg, existente, now) ==
    IF tele_agg.rows = <<>> THEN [lat |-> <<>>, alerts |-> <<>>]
    ELSE analyze(tele_agg, nova_last_alert_time(existente), now)

(***************************************************************************)
(* The detector on whole telemetry frames: a process holds one             *)
(* AlertDetector, calls its analyze and detect_trend, and calls            *)
(* compute_alerts, on one telemetry frame, while the wall clock advances.  *)
(* The frame holds the readings of one or two equipments, each taken from  *)
(* a list of shapes; readings are 20 minutes apart.  ultima keeps the two  *)
(* most recent calls, newest first.                                        *)
(***************************************************************************)
MaxChamadas == 2

TEMP_NOMINAL == (TEMP_MIN_SAFE + TEMP_MAX_SAFE) \div 2

Flat(n) == [i \in 1..n |-> <<PRESSAO_NOMINAL, TEMP_NOMINAL>>]

\* the readings <<pressao_mpa, temp_matriz_c>> of one equipment
Shapes ==
    [flat  |-> Flat(8),
     short |-> Flat(5) \o <<<<PRESSURE_MAX_SAFE + 4, TEMP_NOMINAL>>>>,
     spike |-> Flat(7) \o <<<<PRESSURE_MAX_SAFE + 4, TEMP_NOMINAL>>>>,
     two   |-> Flat(10) \o <<<<PRESSURE_MAX_SAFE + 4, TEMP_NOMINAL>>,
                             <<PRESSAO_NOMINAL, TEMP_NOMINAL>>,
                             <<PRESSURE_MAX_SAFE + 4, TEMP_NOMINAL>>>>,
     up    |-> [i \in 1..7 |-> <<PRESSURE_MIN_SAFE + i - 1, TEMP_NOMINAL>>],
     down  |-> [i \in 1..7 |-> <<PRESSURE_MAX_SAFE - i + 1, TEMP_NOMINAL>>],
     wavy  |-> [i \in 1..7 |-> <<PRESSAO_NOMINAL + (IF i \in {2, 3, 6} THEN 1 ELSE 0),
                                 TEMP_NOMINAL + (IF i > 4 THEN 1 ELSE 0)>>],
     temp  |-> Flat(7) \o <<<<PRESSAO_NOMINAL, TEMP_MAX_SAFE + 5>>>>,
     long  |-> [i \in 1..2 |-> <<PRESSURE_MAX_SAFE + 14, TEMP_NOMINAL>>]
               \o Flat(WINDOW_SIZE - 1) \o <<<<PRESSURE_MAX_SAFE, TEMP_NOMINAL>>>>,
     calm  |-> <<<<PRESSURE_MAX_SAFE + 14, TEMP_NOMINAL>>>> \o Flat(WINDOW_SIZE)]

Readings(maquina_id, shape) ==
    [i \in DOMAIN Shapes[shape] |->
        [timestamp     |-> 20 * i,
         maquina_id    |-> maquina_id,
         pressao_mpa   |-> Shapes[shape][i][1],
         temp_matriz_c |-> Shapes[shape][i][2]]]

\* the long and calm shapes are kept to frames of one equipment
SecondReadings(s1) ==
    {<<>>} \cup {Readings("2", s2) :
                   s2 \in IF s1 \in {"long", "calm"} THEN {} ELSE {"flat", "spike", "up"}}

TeleFrames ==
    UNION {{[columns |-> {"timestamp", "maquina_id", "pressao_mpa", "temp_matriz_c"},
             rows    |-> Readings("1", s1) \o r2] : r2 \in SecondReadings(s1)} :
           s1 \in DOMAIN Shapes}

ChamadaTele(op, metric, maquina_id, df, r) ==
    [op         |-> op,
     df         |-> df,
     metric     |-> metric,
     maquina_id |-> maquina_id,
     lat_before |-> last_alert_time,
     now        |-> relogio,
     alerts     |-> r.alerts]

Registrar(c) ==
    /\ n_leituras < MaxChamadas
    /\ n_leituras' = n_leituras + 1
    /\ ultima' = <<c>> \o SubSeq(ultima, 1, IF Len(ultima) > 0 THEN 1 ELSE 0)
    /\ UNCHANGED <<relogio, df_maq>>

\* detector.analyze(tele_df) on the detector the process holds
Analyze ==
    LET r == analyze(df_maq, last_alert_time, relogio)
    IN  /\ last_alert_time' = r.lat
        /\ Registrar(ChamadaTele("analyze", "", "", df_maq, r))

\* compute_alerts(tele_df): its detector is local to the call
ComputeAlerts ==
    LET r == compute_alerts(df_maq, last_alert_time, relogio)
    IN  /\ last_alert_time' = last_alert_time
        /\ Registrar(ChamadaTele("compute_alerts", "", "", df_maq, r))

\* detector.detect_trend(df_maq, metric, maquina_id)
DetectTrend(metric, maquina_id) ==
    LET df == frame_da_maquina(df_maq, maquina_id)
        r  == detect_trend(df, metric, maquina_id, last_alert_time, relogio)
    IN  /\ last_alert_time' = r.lat
        /\ Registrar(ChamadaTele("detect_trend", metric, maquina_id, df, r))

TickAnalyze(d) ==
    /\ relogio + d <= MaxRelogio
    /\ relogio' = relogio + d
    /\ UNCHANGED <<last_alert_time, ultima, df_maq, n_leituras>>

InitAnalyze ==
    /\ last_alert_time = <<>>
    /\ relogio = 0
    /\ ultima = <<>>
    /\ df_maq \in TeleFrames
    /\ n_leituras = 0
    /\ IdleProd /\ IdleTele /\ IdlePeriodo /\ IdleKpi /\ IdleEvt /\ IdleEtl /\ IdleConc

NextAnalyze ==
    /\ \/ Analyze
       \/ ComputeAlerts
       \/ \E metric \in {"pressao_mpa", "temp_matriz_c", "umidade_pct"},
             maquina_id \in {"1", "2"} : DetectTrend(metric, maquina_id)
       \/ \E d \in TickSteps : TickAnalyze(d)
    /\ UNCHANGED <<vars_prod, vars_tele, vars_periodo, vars_kpi, vars_evt, vars_etl, vars_conc>>

SpecAnalyze == InitAnalyze /\ [][NextAnalyze]_vars

(***************************************************************************)
(* Specifications.                                                         *)
(***************************************************************************)
InitProducao ==
    /\ prod_raw \in SeqsUpTo(RawProdRows, MaxProdRows)
    /\ prod_out = <<>>
    /\ IdleTele /\ IdlePeriodo /\ IdleAlert /\ IdleKpi /\ IdleEvt /\ IdleEtl /\ IdleConc

NextProducao ==
    ProcessProducao /\ UNCHANGED <<vars_tele, vars_periodo, vars_alert, vars_kpi, vars_evt, vars_etl, vars_conc>>

SpecProducao == InitProducao /\ [][NextProducao]_vars

InitTelemetria ==
    /\ \E columns \in ColumnSets :
         \E rows \in SeqsUpTo(RawTeleRows(columns), MaxTeleRows) :
            tele_raw = [columns |-> columns, rows |-> rows]
    /\ tele_out = <<>>
    /\ IdleProd /\ IdlePeriodo /\ IdleAlert /\ IdleKpi /\ IdleEvt /\ IdleEtl /\ IdleConc

NextTelemetria ==
    ProcessTelemetria /\ UNCHANGED <<vars_prod, vars_periodo, vars_alert, vars_kpi, vars_evt, vars_etl, vars_conc>>

SpecTelemetria == InitTelemetria /\ [][NextTelemetria]_vars

(***************************************************************************)
(* Properties of process_producao (SpecProducao).                          *)
(***************************************************************************)
ProdSilver == prod_out[1].silver

\* C1: every row process_producao retains has pecas_produzidas >= 0,
\* pecas_refugadas >= 0 and pecas_refugadas <= pecas_produzidas (none of them
\* NaN), whatever the raw frame.
C1_RetainedRowsValid ==
    prod_out # <<>> =>
        \A i \in DOMAIN ProdSilver :
            LET r == ProdSilver[i]
            IN  /\ ~IsNa(r.pecas_produzidas) /\ Val(r.pecas_produzidas) >= 0
                /\ ~IsNa(r.pecas_refugadas) /\ Val(r.pecas_refugadas) >= 0
                /\ Val(r.pecas_refugadas) <= Val(r.pecas_produzidas)

\* C1 witness: a call that kept one row and dropped a row whose scrap exceeds
\* its production.
C1_Witness ==
    /\ prod_out # <<>>
    /\ Len(ProdSilver) = 1
    /\ \E i \in DOMAIN prod_raw :
          /\ ~IsNa(prod_raw[i].timestamp)
          /\ Gt(prod_raw[i].pecas_refugadas, prod_raw[i].pecas_produzidas)
          /\ Ge(prod_raw[i].pecas_produzidas, Num(0))

(***************************************************************************)
(* Properties of process_telemetria (SpecTelemetria).                      *)
(***************************************************************************)
TeleSilver == tele_out[1].silver

TeleColumns == tele_out[1].columns

\* C2: every row process_telemetria returns has pressao_mpa within
\* [PRESSAO_MIN, PRESSAO_MAX], umidade_pct within [UMIDADE_MIN, UMIDADE_MAX]
\* and temp_matriz_c within [TEMP_MIN, TEMP_MAX] (for the columns the frame
\* has), after the range filter and the winsorization (values in hundredths).
C2_SilverWithinLimits ==
    tele_out # <<>> =>
        \A i \in DOMAIN TeleSilver : \A col \in TeleColumns :
            /\ ~IsNa(TeleSilver[i][col])
            /\ Val(TeleSilver[i][col]) >= 100 * LimitMin(col)
            /\ Val(TeleSilver[i][col]) <= 100 * LimitMax(col)

\* C2 witness: a frame with a pressure column in which a row at the upper
\* limit passed the range filter and the winsorization then changed its
\* pressure.
C2_Witness ==
    /\ tele_out # <<>>
    /\ "pressao_mpa" \in TeleColumns
    /\ \E i \in DOMAIN tele_raw.rows :
          tele_raw.rows[i].pressao_mpa = Num(PRESSAO_MAX)
    /\ \E i \in DOMAIN TeleSilver :
          /\ Val(TeleSilver[i].pressao_mpa) % 100 # 0
          /\ Val(TeleSilver[i].pressao_mpa) > 100 * 13

\* The operational range asserted by test_telemetria_pressao_range.
TEST_PRESSAO_MIN == 10

TEST_PRESSAO_MAX == 20

\* C3: every telemetry row written to the silver output has pressao_mpa
\* between 10 and 20 MPa inclusive (values in hundredths).
C3_SilverPressureWithinTestRange ==
    (tele_out # <<>> /\ "pressao_mpa" \in TeleColumns) =>
        \A i \in DOMAIN TeleSilver :
            /\ Val(TeleSilver[i].pressao_mpa) >= 100 * TEST_PRESSAO_MIN
            /\ Val(TeleSilver[i].pressao_mpa) <= 100 * TEST_PRESSAO_MAX

(***************************************************************************)
(* Properties of selecionar_periodo_inteligente (SpecPeriodo).             *)
(***************************************************************************)
Retorno(c) == <<c.resultado.inicio, c.resultado.fim, c.resultado.descricao>>

AutoCalls == {i \in DOMAIN chamadas : chamadas[i].modo = "auto"}

\* rows of a frame with a valid timestamp and positive production
Producing(df) ==
    {i \in DOMAIN df.rows :
        ~IsNa(df.rows[i].timestamp) /\ df.rows[i].pecas_produzidas > 0}

DayOfRow(df, i) == DateOf(Val(df.rows[i].timestamp))

\* D: the latest calendar day that has a row with positive production
LatestDay(df) == MaxOf({DayOfRow(df, i) : i \in Producing(df)})

\* total produced on a calendar day, over all rows of that day
TotalOn(df, day) ==
    SumSeq([i \in DOMAIN df.rows |->
               IF ~IsNa(df.rows[i].timestamp) /\ DayOfRow(df, i) = day
               THEN df.rows[i].pecas_produzidas ELSE 0])

\* the days among D-1 .. D-7 whose total production is positive
EarlierDays(df) ==
    {d \in (LatestDay(df) - MAX_TENTATIVAS)..(LatestDay(df) - 1) : TotalOn(df, d) > 0}

\* 1970-01-04, day 3 of the epoch, was a Sunday
IsSunday(day) == day % 7 = 3

LowDay(df) ==
    TotalOn(df, LatestDay(df)) < LIMIAR_PRODUCAO \/ IsSunday(LatestDay(df))

IsWindowOfDay(res, day) ==
    /\ res.inicio = Num(Midnight(day))
    /\ res.fim = Num(Midnight(day) + SECONDS_PER_DAY - 1)

\* C7: two auto-mode calls on the same frame return the same (start, end,
\* label), whatever the clock at each call, and no call changes the caller's
\* frame.
C7_AutoIdempotent ==
    /\ \A i \in AutoCalls : \A j \in AutoCalls :
          chamadas[i].antes = chamadas[j].antes
              => Retorno(chamadas[i]) = Retorno(chamadas[j])
    /\ \A i \in DOMAIN chamadas : chamadas[i].antes = producao_df

\* C7 witness: two auto calls made at different clock readings on a frame
\* with production, with a window of one day.
C7_Witness ==
    /\ Len(chamadas) = 2
    /\ AutoCalls = {1, 2}
    /\ chamadas[1].agora # chamadas[2].agora
    /\ Producing(producao_df) # {}
    /\ ~IsNa(chamadas[2].resultado.descricao.dia)

C9_SearchBounded ==
    \A i \in AutoCalls :
        LET df  == chamadas[i].antes
            res == chamadas[i].resultado
        IN  /\ res.tentativas <= MAX_TENTATIVAS
            /\ (Producing(df) # {} /\ LowDay(df) /\ EarlierDays(df) = {})
                  => /\ res.inicio = ts_min(df.rows)
                     /\ res.fim = ts_max(df.rows)
                     /\ IsNa(res.descricao.dia)

\* C9 witness: a low latest day with production eight days earlier: seven
\* attempts fail and the full range of more than a day is returned.
C9_Witness ==
    \E i \in AutoCalls :
        LET df  == chamadas[i].antes
            res == chamadas[i].resultado
        IN  /\ Producing(df) # {}
            /\ LowDay(df)
            /\ TotalOn(df, LatestDay(df) - MAX_TENTATIVAS - 1) > 0
            /\ res.tentativas = MAX_TENTATIVAS
            /\ res.descricao.rotulo = "Historico (fallback)"
            /\ Val(res.fim) - Val(res.inicio) > SECONDS_PER_DAY

UltimaIs(op) == ultima # <<>> /\ ultima[1].op = op

\* positions of the evaluated rows of call c whose value is outside the
\* control limits of its frame
Triggering(c) ==
    {i \in Range(TailIdx(c.df, PERSISTENCE_CRITICAL)) :
        OutOfLimits(c.df.rows[i][c.metric], ooc_limits(c.df, c.metric))}

AlertedRows(c) == {c.alerts[j].row : j \in DOMAIN c.alerts}

\* the key of call c had fired less than 15 wall-clock minutes before the call
CooldownActive(c, rule, metric) ==
    LET key == AlertKey(c.maquina_id, metric, rule)
    IN  /\ key \in DOMAIN c.lat_before
        /\ c.now - c.lat_before[key] < 15

\* C4 as stated: of two out-of-control points of one (equipment, metric)
\* whose timestamps are less than 15 minutes apart, the first emits an
\* OUT_OF_CONTROL alert and the second is suppressed; the pair is taken with
\* nothing else to silence it: the key has never fired before the call and
\* every earlier out-of-control point lies 15 minutes or more before the pair.
C4_PairWithin15MinEmitsOnce ==
    UltimaIs("detect_out_of_control") /\ ultima[1].metric \in ultima[1].df.columns =>
        LET c     == ultima[1]
            T     == Triggering(c)
            ts(i) == c.df.rows[i].timestamp
        IN  \A a, b \in T :
               (/\ a < b
                /\ ts(b) - ts(a) < 15
                /\ AlertKey(c.maquina_id, c.metric, "OUT_OF_CONTROL") \notin DOMAIN c.lat_before
                /\ \A x \in T : x < a => ts(a) - ts(x) >= 15) =>
                   /\ a \in AlertedRows(c)
                   /\ b \notin AlertedRows(c)

\* C4, amended: of two out-of-control points evaluated by one call, the first
\* emits and the second is suppressed exactly when the first is the first
\* out-of-control row of the call and its key has not fired in the 15
\* wall-clock minutes before; otherwise neither emits.  The distance between
\* the points' timestamps plays no part.
C4_FirstEmitsRestSuppressed ==
    UltimaIs("detect_out_of_control") /\ ultima[1].metric \in ultima[1].df.columns =>
        LET c     == ultima[1]
            T     == Triggering(c)
            fresh == ~CooldownActive(c, "OUT_OF_CONTROL", c.metric)
        IN  \A a, b \in T :
               a < b =>
                   IF fresh /\ (\A x \in T : a <= x)
                   THEN /\ AlertedRows(c) = {a}
                        /\ Len(c.alerts) = 1
                        /\ c.alerts[1].alert_type = "OUT_OF_CONTROL"
                   ELSE /\ a \notin AlertedRows(c)
                        /\ b \notin AlertedRows(c)

\* a call on a fresh key with two out-of-control points 15 minutes or more
\* apart in the data: one alert, for the first
C4_Witness ==
    /\ UltimaIs("detect_out_of_control")
    /\ ultima[1].metric \in ultima[1].df.columns
    /\ ~CooldownActive(ultima[1], "OUT_OF_CONTROL", ultima[1].metric)
    /\ \E a, b \in Triggering(ultima[1]) :
          /\ a < b
          /\ ultima[1].df.rows[b].timestamp - ultima[1].df.rows[a].timestamp >= 15
          /\ AlertedRows(ultima[1]) = {a}

\* C5: an OUT_OF_CONTROL alert is raised only for a sample that belongs to a
\* run of at least PERSISTENCE_WARNING consecutive out-of-limits samples, a
\* single isolated out-of-limits sample produces no alert, and with no
\* cooldown active each such run produces exactly one alert.
C5_PersistenceHonoured ==
    UltimaIs("detect_out_of_control") =>
        LET c == ultima[1]
            N == PERSISTENCE_WARNING
            out(i) == /\ i \in DOMAIN c.df.rows
                      /\ c.metric \in c.df.columns
                      /\ OutOfLimits(c.df.rows[i][c.metric], ooc_limits(c.df, c.metric))
            runs == {lo \in DOMAIN c.df.rows :
                        ~out(lo - 1) /\ \A i \in lo..(lo + N - 1) : out(i)}
        IN  /\ \A j \in DOMAIN c.alerts :
                  \E lo \in (c.alerts[j].row - N + 1)..c.alerts[j].row :
                     \A i \in lo..(lo + N - 1) : out(i)
            /\ ~CooldownActive(c, "OUT_OF_CONTROL", c.metric) =>
                  Len(c.alerts) = Cardinality(runs)

\* the safe pressure range of AlertConfig, restated
ViolatingRows(c) ==
    {i \in DOMAIN c.df.rows :
        c.df.rows[i].pressao_mpa < 10 \/ c.df.rows[i].pressao_mpa > 16}

\* C6 as stated: with k pressure rows outside the safe range and no cooldown
\* active for the key, detect_safety_violations returns k alerts, all
\* CRITICAL and of type ANOMALY.
C6_OneAlertPerViolatingRow ==
    (UltimaIs("detect_safety_violations")
        /\ ~CooldownActive(ultima[1], "SAFETY", "pressao_mpa")) =>
        LET c == ultima[1]
        IN  /\ Len(c.alerts) = Cardinality(ViolatingRows(c))
            /\ \A j \in DOMAIN c.alerts :
                  /\ c.alerts[j].severity = "CRITICAL"
                  /\ c.alerts[j].alert_type = "ANOMALY"

\* C6, amended: with k pressure rows outside the safe range and no cooldown
\* active for the key, detect_safety_violations returns no alert when k = 0
\* and exactly one when k >= 1, for the first violating row in frame order,
\* CRITICAL and of type ANOMALY; the other k - 1 rows are suppressed by the
\* cooldown the first one starts.
C6_OneAlertPerKey ==
    (UltimaIs("detect_safety_violations")
        /\ ~CooldownActive(ultima[1], "SAFETY", "pressao_mpa")) =>
        LET c == ultima[1]
            V == ViolatingRows(c)
        IN  /\ V = {} => c.alerts = <<>>
            /\ V # {} =>
                  /\ Len(c.alerts) = 1
                  /\ c.alerts[1].row \in V
                  /\ \A i \in V : c.alerts[1].row <= i
                  /\ c.alerts[1].metric = "pressao_mpa"
                  /\ c.alerts[1].severity = "CRITICAL"
                  /\ c.alerts[1].alert_type = "ANOMALY"

\* a call with two or more violating rows and no cooldown: a single alert
C6_Witness ==
    /\ UltimaIs("detect_safety_violations")
    /\ ~CooldownActive(ultima[1], "SAFETY", "pressao_mpa")
    /\ Cardinality(ViolatingRows(ultima[1])) >= 2
    /\ Len(ultima[1].alerts) = 1

(***************************************************************************)
(* Properties of the rolling-24-hours flag (SpecJanela).                   *)
(***************************************************************************)
ValidTimestamps(df) ==
    {Val(df.rows[i].timestamp) : i \in {j \in DOMAIN df.rows : ~IsNa(df.rows[j].timestamp)}}

\* end = the maximum timestamp of the frame, start = end minus 24 hours
IsLast24h(res, df) ==
    IF ValidTimestamps(df) = {}
    THEN res.fim = NaN /\ res.inicio = NaN
    ELSE /\ res.fim = Num(MaxOf(ValidTimestamps(df)))
         /\ res.inicio = Num(MaxOf(ValidTimestamps(df)) - 24 * 3600)

\* C11 as stated: called with the flag rolling_24h on a non-empty frame, the
\* selector returns end = max(timestamp) and start = end - 24 h.
C11_Rolling24hFlag ==
    \A i \in DOMAIN chamadas :
        (chamadas[i].modo = "rolling_24h" /\ chamadas[i].antes.rows # <<>>) =>
            IsLast24h(chamadas[i].resultado, chamadas[i].antes)

\* C11, amended: called with the flag 24h on a non-empty frame, the selector
\* returns end = max(timestamp) and start = end - 24 h.
C11_Flag24h ==
    \A i \in DOMAIN chamadas :
        (chamadas[i].modo = "24h" /\ chamadas[i].antes.rows # <<>>) =>
            IsLast24h(chamadas[i].resultado, chamadas[i].antes)

\* a 24h call on a frame with two distinct valid timestamps
C11_Witness ==
    \E i \in DOMAIN chamadas :
        /\ chamadas[i].modo = "24h"
        /\ Cardinality(ValidTimestamps(chamadas[i].antes)) >= 2
        /\ chamadas[i].resultado.fim = Num(MaxOf(ValidTimestamps(chamadas[i].antes)))

(***************************************************************************)
(* Properties of calculate_mttr_mtbf (SpecMttr).                           *)
(***************************************************************************)
MttrCalled == kpi_ret # <<>>

\* events with a positive duration, their number and their summed duration
Failures(df) ==
    {i \in DOMAIN df : ~IsNa(df[i].duracao_min) /\ Val(df[i].duracao_min) > 0}

Downtime(df) ==
    SumSeq([i \in DOMAIN df |-> IF i \in Failures(df) THEN Val(df[i].duracao_min) ELSE 0])

EventTimes(df) ==
    {Val(df[i].timestamp) : i \in {j \in DOMAIN df : ~IsNa(df[j].timestamp)}}

\* minutes between the earliest and the latest event timestamp
SpanMinutes(df) == MaxOf(EventTimes(df)) - MinOf(EventTimes(df))

\* C12 as stated: with a failure and more than one distinct timestamp,
\* MTTR = downtime / failures and MTBF = (span - downtime) / failures.
C12_MttrMtbfFormula ==
    MttrCalled =>
        LET df == kpi_args.evt_df
        IN  (Failures(df) # {} /\ Cardinality(EventTimes(df)) > 1) =>
               /\ RatEq(kpi_ret[1].mttr, <<Downtime(df), Cardinality(Failures(df))>>)
               /\ RatEq(kpi_ret[1].mtbf,
                        <<SpanMinutes(df) - Downtime(df), Cardinality(Failures(df))>>)

\* C12, amended: with a failure and more than one distinct timestamp,
\* MTTR = downtime / failures and MTBF = max(0, span - downtime) / failures:
\* the operating time is clamped at 0 when the downtime exceeds the span.
C12_MttrMtbfClamped ==
    MttrCalled =>
        LET df == kpi_args.evt_df
            op == SpanMinutes(df) - Downtime(df)
        IN  (Failures(df) # {} /\ Cardinality(EventTimes(df)) > 1) =>
               /\ RatEq(kpi_ret[1].mttr, <<Downtime(df), Cardinality(Failures(df))>>)
               /\ RatEq(kpi_ret[1].mtbf,
                        <<IF op > 0 THEN op ELSE 0, Cardinality(Failures(df))>>)

\* durations 30, 60 and 90 over a 10-hour span: MTTR 60, MTBF 140
C12_Witness ==
    /\ MttrCalled
    /\ Len(kpi_args.evt_df) = 3
    /\ {Val(kpi_args.evt_df[i].duracao_min) : i \in Failures(kpi_args.evt_df)} = {30, 60, 90}
    /\ Cardinality(EventTimes(kpi_args.evt_df)) > 1
    /\ SpanMinutes(kpi_args.evt_df) = 600
    /\ RatEq(kpi_ret[1].mttr, <<60, 1>>)
    /\ RatEq(kpi_ret[1].mtbf, <<140, 1>>)

\* the span is degenerate: no valid timestamp, or a single distinct one
Degenerate(df) == Cardinality(EventTimes(df)) <= 1

\* C13 as stated: (0, 0) when no event has a positive duration, and also when
\* the span is degenerate even if some event has a positive duration.
C13_ZeroZero ==
    MttrCalled =>
        LET df == kpi_args.evt_df
        IN  (Failures(df) = {} \/ Degenerate(df)) =>
               /\ RatEq(kpi_ret[1].mttr, <<0, 1>>)
               /\ RatEq(kpi_ret[1].mtbf, <<0, 1>>)

\* C13, amended: (0, 0) when no event has a positive duration; when some event
\* has one and the span is degenerate, MTBF is 0 and MTTR is still
\* downtime / failures.
C13_ZeroMtbfOnDegenerateSpan ==
    MttrCalled =>
        LET df == kpi_args.evt_df
        IN  /\ Failures(df) = {} =>
                  /\ RatEq(kpi_ret[1].mttr, <<0, 1>>)
                  /\ RatEq(kpi_ret[1].mtbf, <<0, 1>>)
            /\ (Failures(df) # {} /\ Degenerate(df)) =>
                  /\ RatEq(kpi_ret[1].mttr, <<Downtime(df), Cardinality(Failures(df))>>)
                  /\ RatEq(kpi_ret[1].mtbf, <<0, 1>>)

\* two failures sharing one timestamp: MTBF 0 with a positive MTTR
C13_Witness ==
    /\ MttrCalled
    /\ Cardinality(Failures(kpi_args.evt_df)) >= 2
    /\ Cardinality(EventTimes(kpi_args.evt_df)) = 1
    /\ kpi_ret[1].mttr[1] > 0
    /\ RatEq(kpi_ret[1].mtbf, <<0, 1>>)

(***************************************************************************)
(* Properties of compute_refugo_by_turno (SpecRefugo).                     *)
(***************************************************************************)
ShiftsOf(df) == {df[i].turno : i \in DOMAIN df} \ {""}

ShiftTotal(df, t, col) ==
    SumSeq([i \in DOMAIN df |->
               IF df[i].turno = t /\ ~IsNa(df[i][col]) THEN Val(df[i][col]) ELSE 0])

\* r tenths of a percent is scrap / production * 100 rounded to 1 decimal:
\* no further than 0.05 from the exact percentage
IsRoundedPct(r, production, scrap) ==
    LET diff == r * production - 1000 * scrap
    IN  2 * (IF diff >= 0 THEN diff ELSE 0 - diff) <= production

\* C14: one row per shift, pct_refugo = scrap / production * 100 rounded to
\* 1 decimal and 0 when the shift produced nothing, rows in non-increasing
\* order of pct_refugo.
C14_RefugoByTurno ==
    kpi_ret # <<>> =>
        LET df  == kpi_args.prod_df
            out == kpi_ret[1]
        IN  /\ {out[i].turno : i \in DOMAIN out} = ShiftsOf(df)
            /\ Len(out) = Cardinality(ShiftsOf(df))
            /\ \A i \in DOMAIN out :
                  LET p == ShiftTotal(df, out[i].turno, "pecas_produzidas")
                      s == ShiftTotal(df, out[i].turno, "pecas_refugadas")
                  IN  IF p = 0 THEN out[i].pct_refugo = 0
                      ELSE IsRoundedPct(out[i].pct_refugo, p, s)
            /\ \A i \in DOMAIN out : \A j \in DOMAIN out :
                  i < j => out[i].pct_refugo >= out[j].pct_refugo

\* shifts A, B and C with production 1000 each and scrap 50, 100 and 20:
\* 10.0, 5.0 and 2.0 in the order B, A, C
C14_Witness ==
    /\ kpi_ret # <<>>
    /\ Len(kpi_ret[1]) = 3
    /\ \A t \in 1..3 : ShiftTotal(kpi_args.prod_df, Turnos[t], "pecas_produzidas") = 1000
    /\ ShiftTotal(kpi_args.prod_df, Turnos[1], "pecas_refugadas") = 50
    /\ ShiftTotal(kpi_args.prod_df, Turnos[2], "pecas_refugadas") = 100
    /\ ShiftTotal(kpi_args.prod_df, Turnos[3], "pecas_refugadas") = 20
    /\ [i \in 1..3 |-> kpi_ret[1][i].turno] = <<Turnos[2], Turnos[1], Turnos[3]>>
    /\ [i \in 1..3 |-> kpi_ret[1][i].pct_refugo] = <<100, 50, 20>>

(***************************************************************************)
(* Properties of compute_oee_kpis (SpecOee).                               *)
(***************************************************************************)
RatNonNegative(a) == a[1] * a[2] >= 0

\* C15: Availability, Performance, Quality and OEE are all >= 0 for every
\* production frame, also when a row has more scrap than production or a
\* negative count.
C15_OeeNonNegative ==
    kpi_ret # <<>> =>
        /\ RatNonNegative(kpi_ret[1].disponibilidade)
        /\ RatNonNegative(kpi_ret[1].performance)
        /\ RatNonNegative(kpi_ret[1].qualidade)
        /\ RatNonNegative(kpi_ret[1].oee)

(***************************************************************************)
(* Properties of pareto_paradas (SpecPareto).                              *)
(***************************************************************************)
\* events of type t whose severity is medium or higher
SevereEvents(df, t) == {i \in DOMAIN df : df[i].descricao = t /\ df[i].severidade >= 2}

\* C16: the Pareto counts only events of severity medium or higher: each
\* row's count and summed duration are those of the events of its type with
\* code >= 2, so that a low-severity event contributes to no row.  (The
\* function takes no N: the bound on the number of rows has nothing to be
\* stated against.)
C16_ParetoOnlyMediumOrHigher ==
    kpi_ret # <<>> =>
        \A k \in DOMAIN kpi_ret[1] :
            LET row == kpi_ret[1][k]
                sev == SevereEvents(kpi_args.df, row.descricao)
            IN  /\ row.count = Cardinality(sev)
                /\ row.tempo_total_min =
                      SumSeq([i \in DOMAIN kpi_args.df |->
                                 IF i \in sev THEN kpi_args.df[i].duracao_min ELSE 0])

(***************************************************************************)
(* Properties of process_eventos (SpecEventos).                            *)
(***************************************************************************)
EventosReturned == evt_out # <<>> /\ ~evt_out[1].raised

\* Baixa -> 1, Média / Media -> 2, Alta -> 3, anything else or missing -> 0
SeverityOf(text) ==
    IF text = <<"Baixa">> THEN 1
    ELSE IF text \in {<<"Média">>, <<"Media">>} THEN 2
    ELSE IF text = <<"Alta">> THEN 3
    ELSE 0

\* C17: process_eventos derives the numeric severity of each event from its
\* text severity as Baixa -> 1, Média/Media -> 2, Alta -> 3 and 0 for every
\* other or missing text; the code is always an integer in {0, 1, 2, 3}.
C17_SeverityMapping ==
    EventosReturned =>
        \A i \in DOMAIN evt_out[1].silver :
            LET r == evt_out[1].silver[i]
            IN  /\ r.severidade = SeverityOf(r.severidade_texto)
                /\ r.severidade \in 0..3

\* a silver frame with an unaccented Media mapped to 2 next to a text the
\* mapping lacks mapped to 0
C17_Witness ==
    /\ EventosReturned
    /\ \E i, j \in DOMAIN evt_out[1].silver :
          /\ evt_out[1].silver[i].severidade_texto = <<"Media">>
          /\ evt_out[1].silver[i].severidade = 2
          /\ evt_out[1].silver[j].severidade_texto = <<"Critica">>
          /\ evt_out[1].silver[j].severidade = 0

\* C18: every event row of the silver events output has a severity code in
\* {1, 2, 3}, for every raw events input process_eventos accepts.
C18_SeverityCodeValid ==
    EventosReturned =>
        \A i \in DOMAIN evt_out[1].silver : evt_out[1].silver[i].severidade \in {1, 2, 3}

(***************************************************************************)
(* Properties of run_etl_pipeline (SpecEtl).                               *)
(***************************************************************************)
EtlEnded == etl_ret # <<>>

EtlFailed == EtlEnded /\ etl_pc \in DOMAIN EtlSteps

\* C19: run_etl_pipeline never propagates an exception: a missing raw CSV
\* or a stage that raises makes it return False, and it returns True only
\* when the stages read, process, aggregate, save, report have all
\* completed in that order.
C19_NeverPropagates ==
    EtlEnded =>
        /\ ~etl_ret[1].propagated
        /\ EtlFailed => etl_ret[1].value = FALSE
        /\ RawFiles \ etl_bronze # {} => etl_ret[1].value = FALSE
        /\ etl_ret[1].value = TRUE => etl_stages = EtlStages

\* a run that found its raw files, wrote the silver CSVs, failed in the
\* Parquet step with something other than a missing file, and returned False
C19_Witness ==
    /\ EtlEnded
    /\ etl_bronze = RawFiles
    /\ etl_stages = <<"read", "process", "aggregate">>
    /\ EtlSteps[etl_pc].file = "parquet/telemetria"
    /\ etl_ret[1] = [propagated |-> FALSE, value |-> FALSE]

\* C20: a run that returns False has created or overwritten none of the
\* output files; the outputs are all written or none is.
C20_NoPartialResult ==
    EtlEnded =>
        /\ etl_ret[1].value = FALSE => etl_written = {}
        /\ etl_written \in {{}, OutputFiles}

(***************************************************************************)
(* Properties of the aggregations on frames with absent columns            *)
(* (SpecColunas).                                                          *)
(***************************************************************************)
\* C21: when a column an aggregation depends on is absent from its input
\* frame, compute_oee_kpis, compute_energy_cost, compute_refugo_by_turno,
\* calculate_mttr_mtbf and pareto_paradas return a default instead of raising.
C21_MissingColumnDefault ==
    (kpi_ret # <<>> /\ DependsOn[kpi_args.fn] \ kpi_args.columns # {}) =>
        ~kpi_ret[1].raised

(***************************************************************************)
(* Properties of the winsorization step of process_telemetria              *)
(* (SpecTelemetria).                                                       *)
(***************************************************************************)
TeleCalled == tele_out # <<>>

\* every row parses and is within the limits, row i holds the largest value
\* the limits allow in column col, every other cell of the frame is nominal,
\* and the IQR rule of step 6 flags row i
InjectedMax(i, col) ==
    /\ col \in tele_raw.columns
    /\ i \in DOMAIN tele_raw.rows
    /\ tele_raw.rows[i][col] = Num(LimitMax(col))
    /\ \A j \in DOMAIN tele_raw.rows : \A f \in tele_raw.columns \cup {"timestamp"} :
          <<j, f>> # <<i, col>> => tele_raw.rows[j][f] = NominalCell(f)
    /\ i \in detect_outliers_iqr(Column(tele_raw.rows, col))

\* the winsorized count the report records for a column, NaN when the report
\* has no such entry
WinsorizedCount(quality, col) ==
    IF "winsorized" \in DOMAIN quality THEN Num(quality.winsorized[col]) ELSE NaN

\* C22: when one extreme value is injected at the maximum of a telemetry
\* column, process_telemetria keeps the row, replaces the value by the
\* column's 99th-percentile value, and the quality report records a
\* winsorized count of 1.
C22_WinsorizedCountRecorded ==
    TeleCalled =>
        \A col \in tele_raw.columns : \A i \in DOMAIN tele_raw.rows :
            InjectedMax(i, col) =>
                /\ Len(tele_out[1].silver) = Len(tele_raw.rows)
                /\ tele_out[1].silver[i][col] =
                       Num(QuantileTimes(Column(tele_raw.rows, col), 99, 100))
                /\ WinsorizedCount(tele_out[1].quality, col) = Num(1)

(***************************************************************************)
(* Properties of concurrent pipeline runs (SpecConc).                      *)
(***************************************************************************)
\* C23: output files are written without any lock: a run that has a
\* statement left to execute can always execute it, whatever the other run
\* is doing, so two concurrent runs can both return True while the outputs
\* mix the two runs.
C23_WritesNeverWait ==
    \A r \in Runs :
        (conc_ret[r] = <<>> /\ conc_pc[r] \in DOMAIN EtlSteps) => ENABLED ConcStep(r)

\* both runs returned True, producao_silver.csv holds the data of one run and
\* kpis_daily_gold.csv the data of the other
C23_Witness ==
    /\ \A r \in Runs : conc_ret[r] = <<TRUE>>
    /\ conc_files["producao_silver.csv"] = 1
    /\ conc_files["kpis_daily_gold.csv"] = 2

(***************************************************************************)
(* Properties of analyze, compute_alerts and detect_trend (SpecAnalyze).   *)
(***************************************************************************)
\* the keys (equipment, metric, rule) for which the frame holds something to
\* report: a row among the last five outside the control limits, a trend
\* over the last seven rows, a row outside the safe range
TriggeredKeys(tele_df) ==
    UNION {LET df == frame_da_maquina(tele_df, m)
           IN  {<<m, metric, "OUT_OF_CONTROL">> : metric \in
                   {x \in Range(SafetyMetrics) \cap df.columns :
                       \E i \in Range(TailIdx(df, PERSISTENCE_CRITICAL)) :
                           OutOfLimits(df.rows[i][x], ooc_limits(df, x))}}
               \cup
               {<<m, metric, "TREND">> : metric \in
                   {x \in Range(SafetyMetrics) \cap df.columns :
                       /\ Len(df.rows) >= TREND_WINDOW
                       /\ AbsAbove(corrcoef([i \in 1..TREND_WINDOW |->
                              df.rows[Len(df.rows) - TREND_WINDOW + i][x]]), TREND_THRESHOLD)}}
               \cup
               {<<m, metric, "SAFETY">> : metric \in
                   {x \in Range(SafetyMetrics) \cap df.columns : violations(df, x) # <<>>}}
           : m \in Range(unique_maquinas(tele_df.rows))}

\* C24: every compute_alerts call starts with an empty cooldown map: no
\* earlier call suppresses any of its alerts (it emits one alert for each
\* key the frame triggers), and two successive compute_alerts calls on the
\* same frame emit the same number of alerts.
C24_ComputeAlertsStartsFresh ==
    UltimaIs("compute_alerts") =>
        /\ Len(ultima[1].alerts) = Cardinality(TriggeredKeys(ultima[1].df))
        /\ (Len(ultima) = 2 /\ ultima[2].op = "compute_alerts" /\ ultima[2].df = ultima[1].df) =>
               Len(ultima[2].alerts) = Len(ultima[1].alerts)

\* two compute_alerts calls in a row at the same minute, each with the
\* out-of-control and the safety alert of the frame
C24_Witness ==
    /\ Len(ultima) = 2
    /\ ultima[1].op = "compute_alerts" /\ ultima[2].op = "compute_alerts"
    /\ ultima[1].now = ultima[2].now
    /\ Len(ultima[2].alerts) >= 2
    /\ Len(ultima[1].alerts) = Len(ultima[2].alerts)

\* the rule under which an alert was emitted
RuleOf(alert) ==
    CASE alert.alert_type = "OUT_OF_CONTROL" -> "OUT_OF_CONTROL"
      [] alert.alert_type = "TREND"          -> "TREND"
      [] alert.alert_type = "ANOMALY"        -> "SAFETY"

\* the (equipment, metric, rule) triples call c emitted alerts for
Emitted(c) ==
    {<<c.alerts[j].maquina_id, c.alerts[j].metric, RuleOf(c.alerts[j])>> :
        j \in DOMAIN c.alerts}

\* their cooldown keys
EmittedKeys(c) == {AlertKey(t[1], t[2], t[3]) : t \in Emitted(c)}

\* C25: the cooldown keys are independent. After an analyze call of the
\* process's detector, the last-alert time of every key the call did not
\* emit under is what it was before the call, and a key the frame triggers
\* emits unless that very key is in cooldown: no other equipment, metric or
\* rule suppresses it.
C25_KeysIndependent ==
    UltimaIs("analyze") =>
        LET c == ultima[1]
        IN  /\ \A k \in (DOMAIN last_alert_time \cup DOMAIN c.lat_before) \ EmittedKeys(c) :
                   /\ k \in DOMAIN c.lat_before /\ k \in DOMAIN last_alert_time
                   /\ last_alert_time[k] = c.lat_before[k]
            /\ \A k \in EmittedKeys(c) : last_alert_time[k] = c.now
            /\ \A t \in TriggeredKeys(c.df) :
                   ~_is_in_cooldown(c.lat_before, AlertKey(t[1], t[2], t[3]), c.now)
                       => t \in Emitted(c)

\* an analyze call in which the trend key of equipment 1 is in cooldown
\* while equipment 2 emits under two rules of the same metric
C25_Witness ==
    /\ UltimaIs("analyze")
    /\ _is_in_cooldown(ultima[1].lat_before, AlertKey("1", "pressao_mpa", "TREND"), ultima[1].now)
    /\ <<"1", "pressao_mpa", "TREND">> \in TriggeredKeys(ultima[1].df)
    /\ <<"1", "pressao_mpa", "TREND">> \notin Emitted(ultima[1])
    /\ {<<"2", "pressao_mpa", "OUT_OF_CONTROL">>, <<"2", "pressao_mpa", "SAFETY">>}
           \subseteq Emitted(ultima[1])

\* the control limits of the frame of alert a's equipment, at k standard
\* deviations from the rolling mean
LimitsAt(c, a, k) ==
    [ooc_limits(frame_da_maquina(c.df, a.maquina_id), a.metric) EXCEPT !.std_factor = k]

\* C26: with the default configuration a CRITICAL OUT_OF_CONTROL alert is
\* raised only for a point farther than 3 standard deviations
\* (STD_FACTOR_CRITICAL) from the rolling mean; a point between 2 and 3
\* standard deviations raises none.
C26_CriticalOnlyBeyond3Std ==
    ultima # <<>> =>
        \A j \in DOMAIN ultima[1].alerts :
            LET a == ultima[1].alerts[j]
            IN  (a.alert_type = "OUT_OF_CONTROL" /\ a.severity = "CRITICAL")
                    => BeyondStd(a.value, LimitsAt(ultima[1], a, STD_FACTOR_CRITICAL))

\* the limits of a metric computed from nothing but the last WINDOW_SIZE
\* samples of the frame
LastWindowLimits(df, metric) ==
    LET n == Len(df.rows)
        w == IF n < WINDOW_SIZE THEN n ELSE WINDOW_SIZE
    IN  calculate_limits([i \in 1..w |-> df.rows[n - w + i][metric]], w, STD_FACTOR_WARNING)

\* the out-of-control alerts of call c
OocAlerts(c) ==
    {c.alerts[j] : j \in {i \in DOMAIN c.alerts : c.alerts[i].alert_type = "OUT_OF_CONTROL"}}

\* C27: an out-of-control alert is always for one of the 5 most recent rows
\* (PERSISTENCE_CRITICAL) of the equipment's frame, and its value is outside
\* the limits computed from the last 30 (WINDOW_SIZE) samples; when one of
\* the 5 most recent rows is outside those limits and the key is not in
\* cooldown, the call emits the alert. A point older than the last 5 rows
\* never alerts.
C27_OnlyRecentRowsAgainstLastWindow ==
    (UltimaIs("analyze") \/ UltimaIs("compute_alerts")) =>
        LET c == ultima[1]
        IN  /\ \A a \in OocAlerts(c) :
                   LET df == frame_da_maquina(c.df, a.maquina_id)
                   IN  /\ a.row > Len(df.rows) - PERSISTENCE_CRITICAL
                       /\ a.value = df.rows[a.row][a.metric]
                       /\ OutOfLimits(a.value, LastWindowLimits(df, a.metric))
            /\ \A m \in Range(unique_maquinas(c.df.rows)) :
                   LET df == frame_da_maquina(c.df, m)
                       n  == Len(df.rows)
                   IN  \A metric \in Range(SafetyMetrics) \cap df.columns :
                           (/\ \E i \in 1..n :
                                   /\ i > n - PERSISTENCE_CRITICAL
                                   /\ OutOfLimits(df.rows[i][metric], LastWindowLimits(df, metric))
                            /\ \/ c.op = "compute_alerts"
                               \/ ~_is_in_cooldown(c.lat_before,
                                                   AlertKey(m, metric, "OUT_OF_CONTROL"), c.now))
                               => \E a \in OocAlerts(c) : a.maquina_id = m /\ a.metric = metric

\* a frame of 32 rows whose first two rows are outside the limits and older
\* than the last 5, and whose last row is outside the limits of the last 30
\* samples only: the call alerts for the last row alone
C27_Witness ==
    /\ UltimaIs("analyze")
    /\ Len(ultima[1].df.rows) = WINDOW_SIZE + 2
    /\ OutOfLimits(ultima[1].df.rows[1].pressao_mpa, ooc_limits(ultima[1].df, "pressao_mpa"))
    /\ ~OutOfLimits(ultima[1].df.rows[WINDOW_SIZE + 2].pressao_mpa,
                    calculate_limits([i \in DOMAIN ultima[1].df.rows |->
                                         ultima[1].df.rows[i].pressao_mpa],
                                     WINDOW_SIZE + 2, STD_FACTOR_WARNING))
    /\ {a.row : a \in OocAlerts(ultima[1])} = {WINDOW_SIZE + 2}

\* the Pearson correlation between position and the last 7 values of the
\* metric in the frame of call c
TrendR(c) ==
    corrcoef([i \in 1..7 |-> c.df.rows[Len(c.df.rows) - 7 + i][c.metric]])

AlertsFor(c, t) ==
    {j \in DOMAIN c.alerts :
        <<c.alerts[j].maquina_id, c.alerts[j].metric, RuleOf(c.alerts[j])>> = t}

\* C29: the cooldown is measured on the wall clock at evaluation time, not
\* on the rows' timestamps.  One analyze call emits at most one alert for a
\* key, however far apart the timestamps of its triggering rows are; a key
\* that fired less than COOLDOWN_MINUTES of wall clock before the call is
\* suppressed, and one that fired exactly COOLDOWN_MINUTES or more before
\* the call emits again.
C29_WallClockCooldown ==
    UltimaIs("analyze") =>
        LET c == ultima[1]
        IN  \A t \in TriggeredKeys(c.df) :
                LET key == AlertKey(t[1], t[2], t[3])
                IN  /\ Cardinality(AlertsFor(c, t)) <= 1
                    /\ key \in DOMAIN c.lat_before =>
                           (AlertsFor(c, t) # {}) <=> (c.now - c.lat_before[key] >= COOLDOWN_MINUTES)
                    /\ key \notin DOMAIN c.lat_before => AlertsFor(c, t) # {}

\* rows 11 and 13 of the frame, 40 minutes of data apart, are both out of
\* control: the first analyze call alerts once for the key, and a second
\* call exactly COOLDOWN_MINUTES of wall clock later alerts again
C29_Witness ==
    /\ Len(ultima) = 2
    /\ ultima[1].op = "analyze" /\ ultima[2].op = "analyze"
    /\ ultima[1].now - ultima[2].now = COOLDOWN_MINUTES
    /\ Cardinality({i \in Range(TailIdx(ultima[2].df, PERSISTENCE_CRITICAL)) :
                       OutOfLimits(ultima[2].df.rows[i].pressao_mpa,
                                   ooc_limits(ultima[2].df, "pressao_mpa"))}) = 2
    /\ Cardinality(AlertsFor(ultima[2], <<"1", "pressao_mpa", "OUT_OF_CONTROL">>)) = 1
    /\ Cardinality(AlertsFor(ultima[1], <<"1", "pressao_mpa", "OUT_OF_CONTROL">>)) = 1
    /\ ultima[1].lat_before[AlertKey("1", "pressao_mpa", "OUT_OF_CONTROL")] = ultima[2].now

(***************************************************************************)
(* The processing section of the telemetry quality report (SpecTelemetria). *)
(***************************************************************************)
\* C30: the processing section of the quality report accounts for every
\* removed row: initial_records - final_records = removed_invalid for every
\* raw input, including one with rows whose timestamp does not parse.
C30_RemovedRowsAccounted ==
    TeleCalled =>
        tele_out[1].quality.initial_records - tele_out[1].quality.final_records
            = tele_out[1].quality.removed_invalid

====
